---- MODULE Spec2Model ----
(***************************************************************************)
(* A model of the GN language server's semantic analysis engine: the       *)
(* document store, the per-file analyzer (exports pass), the workspace     *)
(* analyzer with its validity-checked file cache, the analyzer registry,   *)
(* environment assembly over import graphs, background indexing and the    *)
(* one-shot indexing barrier.                                              *)
(*                                                                         *)
(* Conventions.  A string of the program (identifier, string literal,      *)
(* import label) is a sequence of tokens, so that prefix tests such as     *)
(* is_exported and the "//" test of path resolution are computed and not   *)
(* assumed.  A path is the sequence of its components.  The bytes of a     *)
(* document are a content number; parse maps it to its syntax tree.        *)
(***************************************************************************)
EXTENDS Integers, Sequences, FiniteSets, TLC

VARIABLES
    memory_docs,   \* DocumentStorage.memory_docs: path -> in-memory Document
    disk,          \* the file system: path -> bytes and modification time
    workspaces,    \* Analyzer.workspaces: root -> WorkspaceAnalyzer (context, cache)
    edits,         \* number of document-store and file-system changes so far
    seen,          \* history: path -> the latest request_time it was analysed with
    last,          \* what the last operation was and what it returned
    asm,           \* one environment assembly (analyze_at / analyze_files) in progress
    indexed,       \* ServerContext.indexed: root -> AsyncSignal
    idx,           \* the background indexing tasks and the did_open handlers
    sig,           \* one AsyncSignal and its clones
    doc,           \* one document being written, and what its analysis returned
    buf,           \* the text of one file, and the imports inserted into it
    refs,          \* the targets of one file, the links to it, and a references reply
    act,           \* a code-action request and its reply
    conc           \* threads calling into the Analyzer, and the locks they hold

vars == <<memory_docs, disk, workspaces, edits, seen, last, asm, indexed, idx, sig, doc, buf,
         refs, act, conc>>

----------------------------------------------------------------------------
(* Bounds of the model *)

MaxTime == 2       \* request times are 1..MaxTime
MaxEdits == 2      \* document-store / file-system changes per behaviour
MaxOpens == 2      \* did_open notifications in progress at once
MaxClones == 2     \* clones made of one AsyncSignal
MaxSets == 3       \* calls of set() on one AsyncSignal and its clones
MaxWaiters == 2    \* tasks waiting on one AsyncSignal
MaxRequests == 2   \* references / workspace-symbol requests in progress at once
MaxStatements == 3 \* top-level statements of a document being written
MaxImports == 4    \* imports inserted into one file
MaxLinks == 2      \* links to one file in the link indexes of the cached files
MaxRuns == 2       \* runs of index over one workspace, one after the other
MaxThreads == 3    \* threads calling into the Analyzer at once
MaxCalls == 3      \* calls of workspace_for, on their own or in another operation

----------------------------------------------------------------------------
(* Builtin function names: common/builtins, used by analyzer/mod.rs *)

DECLARE_ARGS == "declare_args"
DEFINED == "defined"
FOREACH == "foreach"
FORWARD_VARIABLES_FROM == "forward_variables_from"
IMPORT == "import"
SET_DEFAULTS == "set_defaults"
TEMPLATE == "template"

----------------------------------------------------------------------------
(* The workspace of the model *)

Revisions == {1, 2}   \* the revision numbers a client sends

Root == <<"w">>
DotGnPath == Root \o <<".gn">>
PathA == Root \o <<"a.gni">>
PathB == Root \o <<"b.gni">>
PathC == Root \o <<"BUILDCONFIG.gn">>
BuildFiles == {PathA, PathB, PathC}
Paths == BuildFiles \cup {DotGnPath}

Parent(path) == SubSeq(path, 1, Len(path) - 1)

----------------------------------------------------------------------------
(* Syntax trees.  One record shape serves every statement. *)

Str(raw) == [t |-> "string", raw |-> raw, items |-> <<>>]
Ident(name) == [t |-> "identifier", raw |-> name, items |-> <<>>]
List(items) == [t |-> "list", raw |-> <<>>, items |-> items]

Integer == [t |-> "integer", raw |-> <<>>, items |-> <<>>]

\* fn(args) as an expression
CallExpr(fn, args) == [t |-> "call", raw |-> <<fn>>, items |-> args]

\* { ... } as an expression; the block spans s..e
BlockExpr(block, s, e) ==
    [t |-> "block", raw |-> <<>>, items |-> <<>>, block |-> block, s |-> s, e |-> e]

\* lvalue = rvalue; args holds the rvalue
AssignmentOf(name, rvalue, s, e) ==
    [kind |-> "Assignment", fn |-> "", ident |-> name, args |-> <<rvalue>>,
     hasBlock |-> FALSE, block |-> <<>>, blocks |-> <<>>, s |-> s, bs |-> 0, e |-> e]

Assignment(name, s, e) == AssignmentOf(name, Integer, s, e)

Call(fn, args, s, e) ==
    [kind |-> "Call", fn |-> fn, ident |-> <<>>, args |-> args,
     hasBlock |-> FALSE, block |-> <<>>, blocks |-> <<>>, s |-> s, bs |-> 0, e |-> e]

\* A call with a block; the block spans bs..e
CallBlock(fn, args, block, s, bs, e) ==
    [kind |-> "Call", fn |-> fn, ident |-> <<>>, args |-> args,
     hasBlock |-> TRUE, block |-> block, blocks |-> <<>>, s |-> s, bs |-> bs, e |-> e]

Condition(blocks, s, e) ==
    [kind |-> "Condition", fn |-> "", ident |-> <<>>, args |-> <<>>,
     hasBlock |-> FALSE, block |-> <<>>, blocks |-> blocks, s |-> s, bs |-> 0, e |-> e]

ErrorStatement(s, e) ==
    [kind |-> "Error", fn |-> "", ident |-> <<>>, args |-> <<>>,
     hasBlock |-> FALSE, block |-> <<>>, blocks |-> <<>>, s |-> s, bs |-> 0, e |-> e]

(* The documents of the model, by content number.                          *)
(*   1:  x = 1                                                             *)
(*       _p = 2                                                            *)
(*       import("//b.gni")                                                 *)
(*   2:  declare_args() { y = 1 }                                          *)
(*       import("a.gni")                                                   *)
(*       template("t") { z = 1 }                                           *)
(*   3:  if (c) { x = 3 } else { _q = 3 }                                  *)
(*       group("g") { }                                                    *)
(*   4:  <parse error>                                                     *)
(*       y = 4                                                             *)
(*       template("_h") { }                                                *)
(*       template("u")                                                     *)
(*       import("b.gni")                                                   *)
(*       import("a.gni")                                                   *)
(*   5:  buildconfig = "//BUILDCONFIG.gn"        (a .gn file)              *)
(*   6:  buildconfig = "//b.gni"                 (a .gn file)              *)
BuildContents == 1..4
DotGnContents == {5, 6}

parse(data) ==
    CASE data = 1 -> << Assignment(<<"x">>, 0, 5),
                        Assignment(<<"_", "p">>, 6, 12),
                        Call(IMPORT, <<Str(<<"//", "b.gni">>)>>, 13, 30) >>
      [] data = 2 -> << CallBlock(DECLARE_ARGS, <<>>, <<Assignment(<<"y">>, 17, 22)>>,
                                  0, 15, 24),
                        Call(IMPORT, <<Str(<<"a.gni">>)>>, 25, 40),
                        CallBlock(TEMPLATE, <<Str(<<"t">>)>>,
                                  <<Assignment(<<"z">>, 57, 62)>>, 41, 55, 64) >>
      [] data = 3 -> << Condition(<< <<Assignment(<<"x">>, 9, 14)>>,
                                     <<Assignment(<<"_", "q">>, 24, 30)>> >>, 0, 32),
                        CallBlock("group", <<Str(<<"g">>)>>, <<>>, 33, 44, 47) >>
      [] data = 4 -> << ErrorStatement(0, 3),
                        Assignment(<<"y">>, 4, 9),
                        CallBlock(TEMPLATE, <<Str(<<"_", "h">>)>>, <<>>, 10, 25, 28),
                        Call(TEMPLATE, <<Str(<<"u">>)>>, 29, 42),
                        Call(IMPORT, <<Str(<<"b.gni">>)>>, 43, 58),
                        Call(IMPORT, <<Str(<<"a.gni">>)>>, 59, 74) >>
      [] data = 5 -> << AssignmentOf(<<"buildconfig">>,
                                       Str(<<"//", "BUILDCONFIG.gn">>), 0, 32) >>
      [] data = 6 -> << AssignmentOf(<<"buildconfig">>, Str(<<"//", "b.gni">>), 0, 23) >>
      [] OTHER -> << >>

----------------------------------------------------------------------------
(* common/utils.rs *)

\* is_exported that filters nothing
is_exported_all(name) == TRUE

is_exported(name) == ~(Len(name) > 0 /\ name[1] = "_")

parse_simple_literal(s) == \A i \in 1..Len(s) : s[i] \notin {"\\", "$"}

----------------------------------------------------------------------------
(* Maps (HashMap / BTreeMap): functions over the set of their keys *)

EmptyMap == << >>

MapInsert(m, k, v) == [x \in (DOMAIN m) \cup {k} |-> IF x = k THEN v ELSE m[x]]

\* HashMap::extend: the entries of m2 replace those of m1
MapExtend(m1, m2) ==
    [x \in (DOMAIN m1) \cup (DOMAIN m2) |-> IF x \in DOMAIN m2 THEN m2[x] ELSE m1[x]]

IsPrefix(p, q) == Len(p) <= Len(q) /\ SubSeq(q, 1, Len(p)) = p

----------------------------------------------------------------------------
(* storage.rs: DocumentStorage *)

OnDisk(modified) == [kind |-> "OnDisk", n |-> modified]
InMemory(revision) == [kind |-> "InMemory", n |-> revision]

NotLoaded == [present |-> FALSE, data |-> 0, revision |-> 0]

\* The Err of fs_err::metadata and fs_err::read: the file is not on the disk
IoError == [kind |-> "Err", n |-> 0]

\* Ok(version), or IoError
read_version(path) ==
    IF memory_docs[path].present
    THEN InMemory(memory_docs[path].revision)
    ELSE IF disk[path].exists
         THEN OnDisk(disk[path].modified)
         ELSE IoError

\* Ok(document), or the Err of the read, written as a value with no bytes whose
\* version is IoError
read(path) ==
    IF memory_docs[path].present
    THEN [path |-> path, data |-> memory_docs[path].data,
          version |-> InMemory(memory_docs[path].revision)]
    ELSE IF disk[path].exists
         THEN [path |-> path, data |-> disk[path].data, version |-> read_version(path)]
         ELSE [path |-> path, data |-> 0, version |-> IoError]

----------------------------------------------------------------------------
(* Expressions and paths *)

Some(x) == <<x>>
None == << >>

\* Call::only_arg
only_arg(call) == IF Len(call.args) = 1 THEN Some(call.args[1]) ELSE None

\* Expr::as_simple_string: a string literal without escapes or substitutions
as_simple_string(expr) ==
    IF expr.t = "string" /\ parse_simple_literal(expr.raw) THEN Some(expr.raw) ELSE None

only_arg_simple_string(call) ==
    IF only_arg(call) = None THEN None ELSE as_simple_string(only_arg(call)[1])

\* A label starting with // is relative to the workspace root, any other to the
\* directory of the file
resolve_path(name, root, current_dir) ==
    IF Len(name) > 0 /\ name[1] = "//" THEN root \o Tail(name) ELSE current_dir \o name

\* The nearest ancestor directory that holds a .gn file
find_nearest_workspace_root(path) ==
    IF IsPrefix(Root, path) /\ Len(path) > Len(Root) THEN Some(Root) ELSE None

----------------------------------------------------------------------------
(* analyzer/toplevel.rs: the statements of a block with the bodies of            *)
(* conditions, declare_args and foreach inlined, in source order                 *)

RECURSIVE ConcatAll(_)
ConcatAll(blocks) ==
    IF blocks = << >> THEN << >> ELSE Head(blocks) \o ConcatAll(Tail(blocks))

Inlined(statement) ==
    IF statement.kind = "Condition" THEN ConcatAll(statement.blocks)
    ELSE IF statement.kind = "Call" /\ statement.fn \in {DECLARE_ARGS, FOREACH}
            /\ statement.hasBlock
         THEN statement.block
         ELSE << >>

RECURSIVE top_level_statements(_)
top_level_statements(stack) ==
    IF stack = << >> THEN << >>
    ELSE <<Head(stack)>> \o top_level_statements(Inlined(Head(stack)) \o Tail(stack))

----------------------------------------------------------------------------
(* analyzer/mod.rs: the exports pass *)

NewExports == [variables |-> EmptyMap, templates |-> EmptyMap, targets |-> EmptyMap,
               children |-> << >>]

\* while let Some(last) = stack.last() { if start <= last.end { break } pop }
RECURSIVE PopDeclareArgs(_, _)
PopDeclareArgs(stack, statement) ==
    IF stack # << >> /\ ~(statement.s <= stack[Len(stack)].e)
    THEN PopDeclareArgs(SubSeq(stack, 1, Len(stack) - 1), statement)
    ELSE stack

\* A push under which is_args stays true only while every assignment is in declare_args
PushAssignment_every(variables, name, is_args, a) ==
    IF name \in DOMAIN variables
    THEN [variables EXCEPT ![name].assignments = Append(@, a),
                           ![name].is_args = @ /\ is_args]
    ELSE MapInsert(variables, name,
                   [name |-> name, is_args |-> is_args, assignments |-> <<a>>])

\* variables.entry(name).or_insert_with(|| Variable::new(is_args)).assignments.push(a)
PushAssignment(variables, name, is_args, a) ==
    IF name \in DOMAIN variables
    THEN [variables EXCEPT ![name].assignments = Append(@, a)]
    ELSE MapInsert(variables, name,
                   [name |-> name, is_args |-> is_args, assignments |-> <<a>>])

VariableAssignment(document, statement, name) ==
    [document |-> document.path, of |-> statement.kind, at |-> statement.s,
     primary_variable |-> name]

\* The string literals of the include list of forward_variables_from
ForwardedStrings(call) ==
    IF Len(call.args) >= 2 /\ call.args[2].t = "list"
    THEN SelectSeq(call.args[2].items, LAMBDA x : x.t = "string")
    ELSE << >>

RECURSIVE PushForwarded(_, _, _, _, _)
PushForwarded(variables, strings, is_args, document, call) ==
    IF strings = << >> THEN variables
    ELSE LET name == Head(strings).raw
             next == IF parse_simple_literal(name) /\ is_exported(name)
                     THEN PushAssignment(variables, name, is_args,
                                         VariableAssignment(document, call, name))
                     ELSE variables
         IN PushForwarded(next, Tail(strings), is_args, document, call)

ExportsStatement(acc, statement, document, context) ==
    LET stack == PopDeclareArgs(acc.stack, statement)
        exports == acc.exports
        name == only_arg_simple_string(statement)
    IN  CASE statement.kind = "Assignment" ->
               [stack |-> stack,
                exports |->
                  IF is_exported(statement.ident)
                  THEN [exports EXCEPT !.variables =
                          PushAssignment(@, statement.ident, stack # << >>,
                                         VariableAssignment(document, statement,
                                                            statement.ident))]
                  ELSE exports]
          [] statement.kind = "Call" /\ statement.fn = IMPORT ->
               [stack |-> stack,
                exports |->
                  IF name # None
                  THEN [exports EXCEPT !.children =
                          Append(@, resolve_path(name[1], context.root,
                                                 Parent(document.path)))]
                  ELSE exports]
          [] statement.kind = "Call" /\ statement.fn = TEMPLATE ->
               [stack |-> stack,
                exports |->
                  IF name # None /\ is_exported(name[1])
                  THEN [exports EXCEPT !.templates =
                          MapInsert(@, name[1], [document |-> document.path,
                                                 name |-> name[1], at |-> statement.s])]
                  ELSE exports]
          [] statement.kind = "Call" /\ statement.fn = DECLARE_ARGS ->
               [stack |-> Append(stack, [s |-> statement.s, e |-> statement.e]),
                exports |-> exports]
          [] statement.kind = "Call" /\ statement.fn \in {FOREACH, SET_DEFAULTS} ->
               [stack |-> stack, exports |-> exports]
          [] statement.kind = "Call" /\ statement.fn = FORWARD_VARIABLES_FROM ->
               [stack |-> stack,
                exports |-> [exports EXCEPT !.variables =
                               PushForwarded(@, ForwardedStrings(statement),
                                             stack # << >>, document, statement)]]
          [] statement.kind = "Call"
               /\ statement.fn \notin {IMPORT, TEMPLATE, DECLARE_ARGS, FOREACH, SET_DEFAULTS,
                                        FORWARD_VARIABLES_FROM} ->
               [stack |-> stack,
                exports |->
                  IF name # None
                  THEN [exports EXCEPT !.targets =
                          MapInsert(@, name[1], [document |-> document.path,
                                                 name |-> name[1], at |-> statement.s])]
                  ELSE exports]
          [] OTHER -> [stack |-> stack, exports |-> exports]

RECURSIVE ExportsFold(_, _, _, _)
ExportsFold(acc, statements, document, context) ==
    IF statements = << >> THEN acc
    ELSE ExportsFold(ExportsStatement(acc, Head(statements), document, context),
                     Tail(statements), document, context)

analyze_exports(block, document, context) ==
    ExportsFold([stack |-> << >>, exports |-> NewExports],
                top_level_statements(block), document, context).exports

----------------------------------------------------------------------------
(* analyzer/mod.rs and analyzer/data.rs: the analyzed block and its locals *)

\* analyze_block and analyze_call: what a statement is analyzed as
Classify(statement) ==
    CASE statement.kind = "Assignment" -> "Assignment"
      [] statement.kind = "Condition" -> "Conditions"
      [] statement.kind = "Error" -> "Error"
      [] OTHER ->
           IF statement.fn = DECLARE_ARGS /\ statement.hasBlock THEN "DeclareArgs"
           ELSE IF statement.fn = FOREACH /\ statement.hasBlock
                   /\ Len(statement.args) = 2 /\ statement.args[1].t = "identifier"
                THEN "Foreach"
           ELSE IF statement.fn = FORWARD_VARIABLES_FROM /\ ~statement.hasBlock
                   /\ Len(statement.args) \in {2, 3}
                THEN "ForwardVariablesFrom"
           ELSE IF statement.fn = IMPORT /\ ~statement.hasBlock
                   /\ only_arg_simple_string(statement) # None
                THEN "Import"
           ELSE IF statement.fn = TEMPLATE /\ statement.hasBlock /\ only_arg(statement) # None
                THEN "Template"
           ELSE IF statement.hasBlock
                   /\ statement.fn \notin {DECLARE_ARGS, FOREACH, TEMPLATE, SET_DEFAULTS}
                   /\ only_arg(statement) # None
                THEN "Target"
           ELSE "BuiltinCall"

\* analyze_block keeps no statement that failed to parse
analyze_block(block) == SelectSeq(block, LAMBDA statement : statement.kind # "Error")

\* An iterator that takes the body of a foreach for an inner scope
AnalyzedInlined_without_foreach(statement) ==
    CASE Classify(statement) = "Conditions" ->
           ConcatAll([i \in 1..Len(statement.blocks) |-> analyze_block(statement.blocks[i])])
      [] Classify(statement) = "DeclareArgs" -> analyze_block(statement.block)
      [] OTHER -> << >>

AnalyzedInlined(statement) ==
    CASE Classify(statement) = "Conditions" ->
           ConcatAll([i \in 1..Len(statement.blocks) |-> analyze_block(statement.blocks[i])])
      [] Classify(statement) \in {"DeclareArgs", "Foreach"} -> analyze_block(statement.block)
      [] OTHER -> << >>

RECURSIVE AnalyzedTopLevelStatements(_)
AnalyzedTopLevelStatements(stack) ==
    IF stack = << >> THEN << >>
    ELSE <<Head(stack)>>
         \o AnalyzedTopLevelStatements(AnalyzedInlined(Head(stack)) \o Tail(stack))

\* AnalyzedForwardVariablesFrom::as_variable_assignment: the names it forwards
ForwardedNames(call) ==
    LET strings == IF call.args[2].t = "list"
                   THEN SelectSeq(call.args[2].items, LAMBDA x : x.t = "string")
                   ELSE << >>
        simple == SelectSeq(strings, LAMBDA x : parse_simple_literal(x.raw))
    IN [i \in 1..Len(simple) |-> simple[i].raw]

RECURSIVE PushAll(_, _, _, _, _)
PushAll(variables, names, is_args, document, statement) ==
    IF names = << >> THEN variables
    ELSE PushAll(PushAssignment(variables, Head(names), is_args,
                                VariableAssignment(document, statement, Head(names))),
                 Tail(names), is_args, document, statement)

\* The first pass of local_variables_at, over one statement
LocalsStatement(acc, statement, document) ==
    LET stack == PopDeclareArgs(acc.stack, statement)
        names == CASE Classify(statement) = "Assignment" -> <<statement.ident>>
                   [] Classify(statement) = "Foreach" -> <<statement.args[1].raw>>
                   [] Classify(statement) = "ForwardVariablesFrom" -> ForwardedNames(statement)
                   [] OTHER -> << >>
    IN [stack |-> IF Classify(statement) = "DeclareArgs"
                  THEN Append(stack, [s |-> statement.s, e |-> statement.e])
                  ELSE stack,
        variables |-> PushAll(acc.variables, names, stack # << >>, document, statement)]

RECURSIVE LocalsFold(_, _, _)
LocalsFold(acc, statements, document) ==
    IF statements = << >> THEN acc
    ELSE LocalsFold(LocalsStatement(acc, Head(statements), document),
                    Tail(statements), document)

\* analyze_expr: the blocks of an expression (a primary expression; the lists of
\* the documents hold no blocks)
analyze_expr(expr) ==
    IF expr.t = "block" THEN <<[block |-> expr.block, s |-> expr.s, e |-> expr.e]>>
    ELSE << >>

\* AnalyzedStatement::body_scope: the body of a target, a template or another call
body_scope(statement) ==
    IF Classify(statement) \in {"Target", "Template", "BuiltinCall"} /\ statement.hasBlock
    THEN <<[block |-> statement.block, s |-> statement.bs, e |-> statement.e]>>
    ELSE << >>

\* AnalyzedStatement::expr_scopes (the conditions of the documents hold no blocks)
expr_scopes(statement) ==
    IF Classify(statement) \in {"DeclareArgs", "Import", "Error", "Conditions"}
    THEN << >>
    ELSE ConcatAll([i \in 1..Len(statement.args) |-> analyze_expr(statement.args[i])])

\* AnalyzedStatement::subscopes
subscopes(statement) == body_scope(statement) \o expr_scopes(statement)

\* The test of the second pass with the bounds of the span counted in
contains_inclusive(scope, pos) == scope.s <= pos /\ pos <= scope.e

\* scope.span.start() < pos && pos < scope.span.end()
contains(scope, pos) == scope.s < pos /\ pos < scope.e

\* The subscopes of the statements that hold pos
ScopesAt(statements, pos) ==
    SelectSeq(ConcatAll([i \in 1..Len(statements) |-> subscopes(statements[i])]),
              LAMBDA scope : contains(scope, pos))

RECURSIVE local_variables_at(_, _, _)
RECURSIVE ExtendVariables(_, _, _, _)
ExtendVariables(variables, scopes, document, pos) ==
    IF scopes = << >> THEN variables
    ELSE ExtendVariables(MapExtend(variables,
                                   local_variables_at(Head(scopes).block, document, pos)),
                         Tail(scopes), document, pos)

local_variables_at(block, document, pos) ==
    LET statements == AnalyzedTopLevelStatements(analyze_block(block))
        first == LocalsFold([stack |-> << >>, variables |-> EmptyMap], statements, document)
    IN ExtendVariables(first.variables, ScopesAt(statements, pos), document, pos)

RECURSIVE TemplatesFold(_, _, _)
TemplatesFold(templates, statements, document) ==
    IF statements = << >> THEN templates
    ELSE LET statement == Head(statements)
             name == as_simple_string(statement.args[1])
             next == IF Classify(statement) = "Template" /\ name # None
                     THEN MapInsert(templates, name[1],
                                    [document |-> document.path, name |-> name[1],
                                     at |-> statement.s])
                     ELSE templates
         IN TemplatesFold(next, Tail(statements), document)

RECURSIVE local_templates_at(_, _, _)
RECURSIVE ExtendTemplates(_, _, _, _)
ExtendTemplates(templates, scopes, document, pos) ==
    IF scopes = << >> THEN templates
    ELSE ExtendTemplates(MapExtend(templates,
                                   local_templates_at(Head(scopes).block, document, pos)),
                         Tail(scopes), document, pos)

local_templates_at(block, document, pos) ==
    LET statements == AnalyzedTopLevelStatements(analyze_block(block))
    IN ExtendTemplates(TemplatesFold(EmptyMap, statements, document),
                       ScopesAt(statements, pos), document, pos)

----------------------------------------------------------------------------
(* The link index and the outline of a file *)

RECURSIVE LinksFold(_, _, _, _)
LinksFold(index, statements, path, context) ==
    IF statements = << >> THEN index
    ELSE LET statement == Head(statements)
             name == only_arg_simple_string(statement)
             target == resolve_path(name[1], context.root, Parent(path))
             link == [kind |-> "File", path |-> target, at |-> statement.s]
             next == IF statement.kind = "Call" /\ statement.fn = IMPORT /\ name # None
                     THEN MapInsert(index, target,
                                    IF target \in DOMAIN index
                                    THEN Append(index[target], link) ELSE <<link>>)
                     ELSE index
         IN LinksFold(next, Tail(statements), path, context)

collect_links(block, path, context) ==
    LinksFold(EmptyMap, top_level_statements(block), path, context)

collect_symbols(block) ==
    [i \in 1..Len(block) |->
        [kind |-> block[i].kind, fn |-> block[i].fn, name |-> block[i].ident,
         at |-> block[i].s]]

\* The passes over a syntax tree read the bytes of the document, its path and the
\* workspace root, and nothing else: they are made once for each document and path
\* (0: no bytes at all)
Contents == {0} \cup BuildContents \cup DotGnContents

\* Positions asked about: the start of a file, and inside the body of template("t")
Positions == {0, 58}

AnalysisOf ==
    [data \in Contents, path \in Paths |->
        LET document == [path |-> path, data |-> data]
            context == [root |-> Root]
        IN [exports |-> analyze_exports(parse(data), document, context),
            link_index |-> collect_links(parse(data), path, context),
            outline |-> collect_symbols(parse(data))]]

LocalsOf ==
    [data \in Contents, path \in Paths, pos \in Positions |->
        LET document == [path |-> path, data |-> data]
        IN [variables |-> local_variables_at(parse(data), document, pos),
            templates |-> local_templates_at(parse(data), document, pos)]]

----------------------------------------------------------------------------
(* analyzer/cache.rs and analyzer/data.rs: the cache key and the analyzed file *)

CacheKey_new(path, version, request_time) ==
    [path |-> path, version |-> version, request_time |-> request_time]

\* A key checked at or after request_time is not checked again for that request;
\* otherwise the version now stored for the key's path is compared with the
\* version the key was made from, and a successful check is remembered.
CacheKey_verify(key, request_time) ==
    IF request_time <= key.request_time
    THEN [ok |-> TRUE, checked |-> FALSE, key |-> key]
    ELSE IF read_version(key.path) = key.version
         THEN [ok |-> TRUE, checked |-> TRUE,
               key |-> [key EXCEPT !.request_time = request_time]]
         ELSE [ok |-> FALSE, checked |-> TRUE, key |-> key]

\* AnalyzedFile::new with a key that is made for no version of the document
AnalyzedFile_new_unversioned(document, workspace_root, exports, link_index, outline, request_time) ==
    [document |-> document,
     workspace_root |-> workspace_root,
     exports |-> exports,
     link_index |-> link_index,
     outline |-> outline,
     external |-> find_nearest_workspace_root(document.path) # Some(workspace_root),
     key |-> CacheKey_new(document.path, OnDisk(0), request_time)]

AnalyzedFile_new(document, workspace_root, exports, link_index, outline, request_time) ==
    [document |-> document,
     workspace_root |-> workspace_root,
     exports |-> exports,
     link_index |-> link_index,
     outline |-> outline,
     external |-> find_nearest_workspace_root(document.path) # Some(workspace_root),
     key |-> CacheKey_new(document.path, document.version, request_time)]

----------------------------------------------------------------------------
(* analyzer/mod.rs: WorkspaceAnalyzer *)

WorkspaceAnalyzer_new(context) == [context |-> context, cache |-> EmptyMap]

analyze_file_uncached(context, path, request_time) ==
    LET document == read(path)
        passes == AnalysisOf[document.data, path]
    IN AnalyzedFile_new(document, context.root,
                        passes.exports, passes.link_index, passes.outline,
                        request_time)

\* analyze_file that returns whatever entry the cache holds, without verifying it
analyze_file_unverified(analyzer, path, request_time) ==
    LET new_file == analyze_file_uncached(analyzer.context, path, request_time)
    IN IF path \in DOMAIN analyzer.cache
       THEN [file |-> analyzer.cache[path], cache |-> analyzer.cache,
             hit |-> TRUE, checked |-> FALSE]
       ELSE [file |-> new_file,
             cache |-> MapInsert(analyzer.cache, path, new_file),
             hit |-> FALSE, checked |-> FALSE]

\* analyze_file that builds the file anew on every call and makes its key for the
\* version the store holds for no document of that request
analyze_file_rebuilding(analyzer, path, request_time) ==
    LET new_file == analyze_file_uncached(analyzer.context, path, request_time)
        marked == [new_file EXCEPT !.key.version = OnDisk(request_time + 100)]
    IN [file |-> marked, cache |-> MapInsert(analyzer.cache, path, marked),
        hit |-> FALSE, checked |-> FALSE]

\* WorkspaceAnalyzer::analyze_file: the returned file, the cache after the call,
\* whether the cached file was returned and whether its version was compared
analyze_file(analyzer, path, request_time) ==
    LET cached == path \in DOMAIN analyzer.cache
        v == CacheKey_verify(analyzer.cache[path].key, request_time)
        new_file == analyze_file_uncached(analyzer.context, path, request_time)
    IN IF cached /\ v.ok
       THEN [file |-> [analyzer.cache[path] EXCEPT !.key = v.key],
             cache |-> [analyzer.cache EXCEPT ![path].key = v.key],
             hit |-> TRUE, checked |-> v.checked]
       ELSE [file |-> new_file,
             cache |-> MapInsert(analyzer.cache, path, new_file),
             hit |-> FALSE, checked |-> cached]

----------------------------------------------------------------------------
(* analyzer/mod.rs: Analyzer, the registry of workspace analyzers *)

find_for(path) == find_nearest_workspace_root(path)

\* The build configuration a .gn file names
evaluate_dot_gn(workspace_root, data) ==
    LET assignments == SelectSeq(parse(data),
                                 LAMBDA st : st.kind = "Assignment"
                                             /\ st.ident = <<"buildconfig">>)
    IN resolve_path(assignments[1].args[1].raw, workspace_root, workspace_root)

\* evaluate_dot_gn returns an error: the file assigns no buildconfig
evaluate_dot_gn_fails(data) ==
    SelectSeq(parse(data),
              LAMBDA st : st.kind = "Assignment" /\ st.ident = <<"buildconfig">>) = << >>

\* BTreeMap::entry(k).or_insert(v)
OrInsert(m, k, v) == IF k \in DOMAIN m THEN m ELSE MapInsert(m, k, v)

workspace_for(path) ==
    LET found == find_for(path)
        workspace_root == found[1]
        dot_gn_path == workspace_root \o <<".gn">>
        dot_gn_version == read_version(dot_gn_path)
        context == [root |-> workspace_root,
                    dot_gn_version |-> dot_gn_version,
                    build_config |-> evaluate_dot_gn(workspace_root,
                                                     read(dot_gn_path).data)]
    IN IF found = None
       THEN [ok |-> FALSE, root |-> << >>, workspaces |-> workspaces]
       ELSE IF workspace_root \in DOMAIN workspaces
               /\ workspaces[workspace_root].context.dot_gn_version = dot_gn_version
            THEN [ok |-> TRUE, root |-> workspace_root, workspaces |-> workspaces]
            ELSE IF evaluate_dot_gn_fails(read(dot_gn_path).data)
                 THEN [ok |-> FALSE, root |-> << >>, workspaces |-> workspaces]
                 ELSE [ok |-> TRUE, root |-> workspace_root,
                       workspaces |-> OrInsert(workspaces, workspace_root,
                                               WorkspaceAnalyzer_new(context))]

----------------------------------------------------------------------------
(* The operations *)

\* The bytes a path may be given: what it holds at the start, and one other document
ContentsOf(path) ==
    CASE path = PathA -> {1, 3}
      [] path = PathB -> {2, 4}
      [] OTHER -> DotGnContents

\* What identifies an AnalyzedFile behind its Arc: the document it was built from
\* and its cache key
FileId(file) == [document |-> file.document, key |-> file.key]

NoLast == [op |-> "none", path |-> << >>, time |-> 0, ok |-> TRUE, hit |-> FALSE,
           checked |-> FALSE, later |-> FALSE, file |-> None]

----------------------------------------------------------------------------
(* common/utils.rs: AsyncSignal, a clonable handle on one tokio SetOnce *)

AsyncSignal_new == [initialized |-> FALSE]

AsyncSignal_done(signal) == signal.initialized

\* set() that reports success whatever the SetOnce holds
AsyncSignal_set_always_ok(signal) ==
    [signal |-> [initialized |-> TRUE], result |-> TRUE]

\* SetOnce::set fails when the value is set already; set() returns is_ok()
AsyncSignal_set(signal) ==
    [signal |-> [initialized |-> TRUE], result |-> ~signal.initialized]

\* wait() returns once the SetOnce is initialized
AsyncSignal_wait_ready(signal) == signal.initialized

Procs == 1..MaxOpens
Waiters == 1..MaxWaiters
Requests == 1..MaxRequests

----------------------------------------------------------------------------
(* server/mod.rs and server/indexing.rs: background indexing *)

\* The files a scan of the workspace selects, in the order of the walk
is_good_for_scan(path) ==
    LET name == path[Len(path)]
    IN name \in {"a.gni", "b.gni", "BUILDCONFIG.gn"}

find_gn_in_workspace_for_scan(workspace_root) ==
    SelectSeq(<<PathC, PathA, PathB, DotGnPath>>,
              LAMBDA path : IsPrefix(workspace_root, path) /\ is_good_for_scan(path))

\* maybe_index_workspace_for that does not look whether the root has an entry
maybe_index_workspace_for_always(ctx, tasks, path, parallel) ==
    LET found == find_for(path)
        id == Len(ctx.signals) + 1
    IN IF found = None
       THEN [indexed |-> ctx, tasks |-> tasks]
       ELSE [indexed |-> [map |-> MapInsert(ctx.map, found[1], id),
                          signals |-> Append(ctx.signals, AsyncSignal_new)],
             tasks |-> Append(tasks, [root |-> found[1], barrier |-> id,
                                      parallel |-> parallel, state |-> "spawned",
                                      time |-> 1, todo |-> << >>, running |-> {},
                                      tried |-> {}, failed |-> {}])]

\* Under the lock of the map: an occupied entry ends the call, a vacant one
\* gets a new signal and a task is spawned that holds a clone of it
maybe_index_workspace_for(ctx, tasks, path, parallel) ==
    LET found == find_for(path)
        id == Len(ctx.signals) + 1
    IN IF found = None \/ found[1] \in DOMAIN ctx.map
       THEN [indexed |-> ctx, tasks |-> tasks]
       ELSE [indexed |-> [map |-> MapInsert(ctx.map, found[1], id),
                          signals |-> Append(ctx.signals, AsyncSignal_new)],
             tasks |-> Append(tasks, [root |-> found[1], barrier |-> id,
                                      parallel |-> parallel, state |-> "spawned",
                                      time |-> 1, todo |-> << >>, running |-> {},
                                      tried |-> {}, failed |-> {}])]

\* A document without statements, not analysed yet
NoDocument ==
    [statements |-> << >>, analysed |-> FALSE, pos |-> 0, exports |-> NewExports,
     locals |-> EmptyMap, templates |-> EmptyMap, tracker |-> [ok |-> TRUE, env |-> {}], diagnostics |-> << >>]

\* No environment is being assembled
NoAssembly ==
    [phase |-> "idle", mode |-> "", start |-> << >>, pos |-> 0, time |-> 0,
     files |-> << >>, visited |-> {}, stack |-> << >>, analysed |-> << >>,
     env |-> [variables |-> EmptyMap, templates |-> EmptyMap]]

\* The threads of the runtime, and the workspace roots they ask about
Threads == 1..MaxThreads
OtherRoot == <<"v">>
Roots == {Root, OtherRoot}

\* A thread that is in no call
IdleThread ==
    [pc |-> "idle", op |-> "", root |-> << >>, version |-> OnDisk(1), built |-> 0,
     got |-> 0, held |-> << >>]

\* Analyzer::new: no workspace is registered; no thread is in a call
NoThreads ==
    [threads |-> [t \in Threads |-> IdleThread],
     registry |-> EmptyMap,
     dot_gn |-> [r \in Roots |-> OnDisk(1)],
     arcs |-> 0,
     returned |-> [r \in Roots |-> {}],
     calls |-> 0]

Init ==
    /\ memory_docs = [p \in Paths |-> NotLoaded]
    /\ disk = [p \in Paths |->
                 [data |-> CASE p = PathA -> 1 [] p = PathB -> 2 [] p = PathC -> 3
                             [] OTHER -> 5,
                  modified |-> 1, exists |-> TRUE]]
    /\ workspaces = EmptyMap
    /\ edits = 0
    /\ seen = [p \in Paths |-> 0]
    /\ last = NoLast
    /\ asm = NoAssembly
    /\ indexed = [map |-> EmptyMap, signals |-> << >>]
    /\ idx = [opens |-> [p \in Procs |-> [pc |-> "idle", path |-> << >>]],
              tasks |-> << >>,
              requests |-> [r \in Requests |->
                              [pc |-> "idle", kind |-> "", root |-> << >>,
                               files |-> {}]],
              before |-> None]
    /\ sig = [signal |-> AsyncSignal_new, clones |-> 0, returns |-> << >>,
              waits |-> [w \in Waiters |-> "idle"],
              read |-> [value |-> FALSE, sets |-> 0]]
    /\ doc = NoDocument
    /\ buf = [text |-> << >>, inserted |-> << >>]
    /\ refs = [targets |-> {}, links |-> << >>, asked |-> None, reply |-> << >>]
    /\ act = [asked |-> None, code |-> "", path |-> << >>, reply |-> << >>]
    /\ conc = NoThreads

\* DocumentStorage::load_to_memory
LoadToMemory(path, data, revision) ==
    /\ edits < MaxEdits
    /\ memory_docs' = [memory_docs EXCEPT
                         ![path] = [present |-> TRUE, data |-> data,
                                    revision |-> revision]]
    /\ edits' = edits + 1
    /\ last' = NoLast
    /\ UNCHANGED <<disk, workspaces, seen>>

\* DocumentStorage::unload_from_memory
UnloadFromMemory(path) ==
    /\ edits < MaxEdits
    /\ memory_docs[path].present
    /\ memory_docs' = [memory_docs EXCEPT ![path] = NotLoaded]
    /\ edits' = edits + 1
    /\ last' = NoLast
    /\ UNCHANGED <<disk, workspaces, seen>>

\* Another program writes the file: new bytes, a later modification time
DiskWrite(path, data) ==
    /\ edits < MaxEdits
    /\ disk' = [disk EXCEPT ![path] = [data |-> data, modified |-> @.modified + 1,
                                       exists |-> TRUE]]
    /\ edits' = edits + 1
    /\ last' = NoLast
    /\ UNCHANGED <<memory_docs, workspaces, seen>>

\* Another program removes the file
DiskRemove(path) ==
    /\ edits < MaxEdits
    /\ disk[path].exists
    /\ disk' = [disk EXCEPT ![path].exists = FALSE]
    /\ edits' = edits + 1
    /\ last' = NoLast
    /\ UNCHANGED <<memory_docs, workspaces, seen>>

\* DocumentStorage::read and DocumentStorage::read_version, called on their own:
\* both take &self
StorageRead(path) ==
    /\ last' = [NoLast EXCEPT !.op = "read", !.path = path,
                              !.ok = (read(path).version # IoError
                                        /\ read_version(path) # IoError)]
    /\ UNCHANGED <<memory_docs, disk, workspaces, edits, seen>>

\* Analyzer::analyze_file, of a request made at request_time
AnalyzeFile(path, request_time) ==
    LET w == workspace_for(path)
        r == analyze_file(w.workspaces[w.root], path, request_time)
    IN /\ w.ok
       /\ workspaces' = [w.workspaces EXCEPT ![w.root].cache = r.cache]
       /\ seen' = [seen EXCEPT ![path] = IF request_time > @ THEN request_time ELSE @]
       /\ last' = [op |-> "analyze_file", path |-> path, time |-> request_time,
                   ok |-> TRUE, hit |-> r.hit, checked |-> r.checked,
                   later |-> request_time > seen[path],
                   file |-> Some(FileId(r.file))]
       /\ UNCHANGED <<memory_docs, disk, edits>>

\* Analyzer::analyze_file when the read of the path fails and the code that takes
\* the Result as a document unwraps it: the thread panics, with the mutex of the
\* workspace held. (AnalyzeFile is the other outcome: the failed read is taken as
\* a document of no bytes.)
AnalyzeFilePanics(path, request_time) ==
    \E w \in {workspace_for(path)} :
       /\ w.ok
       /\ read(path).version = IoError
       /\ ~ (path \in DOMAIN w.workspaces[w.root].cache
              /\ analyze_file(w.workspaces[w.root], path, request_time).hit)
       /\ workspaces' = w.workspaces
       /\ last' = [NoLast EXCEPT !.op = "analyze_file panicked", !.path = path,
                                 !.time = request_time, !.ok = FALSE]
       /\ UNCHANGED <<memory_docs, disk, edits, seen>>

\* Analyzer::workspace_for, on its own
WorkspaceFor(path) ==
    LET w == workspace_for(path)
    IN /\ workspaces' = w.workspaces
       /\ last' = [NoLast EXCEPT !.op = "workspace_for", !.path = path, !.ok = w.ok]
       /\ UNCHANGED <<memory_docs, disk, edits, seen>>

\* The paths that change, and the paths that are analysed, in SpecCache
Editable == {PathA, PathB}
Analysable == {PathA, PathB}

\* A request carries the Instant of its creation and runs concurrently with later
\* requests: analyses arrive with their request times in any order.
NextCache ==
    \/ \E path \in Editable, revision \in Revisions :
          \E data \in ContentsOf(path) : LoadToMemory(path, data, revision)
    \/ \E path \in Editable : UnloadFromMemory(path)
    \/ \E path \in Editable : \E data \in ContentsOf(path) : DiskWrite(path, data)
    \/ \E path \in Analysable, request_time \in 1..MaxTime :
          AnalyzeFile(path, request_time)

\* Files are removed from the disk while they are read and analysed
NextStore ==
    \/ \E path \in Editable : \E data \in ContentsOf(path) : LoadToMemory(path, data, 1)
    \/ \E path \in Editable : UnloadFromMemory(path)
    \/ \E path \in Editable : \E data \in ContentsOf(path) : DiskWrite(path, data)
    \/ \E path \in Editable : DiskRemove(path)
    \/ \E path \in Analysable : StorageRead(path)
    \/ \E path \in Analysable, request_time \in 1..MaxTime :
          AnalyzeFile(path, request_time)
    \/ \E path \in Analysable, request_time \in 1..MaxTime :
          AnalyzeFilePanics(path, request_time)

SpecStore ==
    Init /\ [][NextStore /\ UNCHANGED <<asm, indexed, idx, sig, doc, buf, refs, act, conc>>]_vars

SpecCache ==
    Init /\ [][NextCache /\ UNCHANGED <<asm, indexed, idx, sig, doc, buf, refs, act, conc>>]_vars

\* The .gn file changes while files of the workspace are looked up and analysed
NextRegistry ==
    \/ \E revision \in Revisions, data \in DotGnContents :
          LoadToMemory(DotGnPath, data, revision)
    \/ UnloadFromMemory(DotGnPath)
    \/ \E data \in DotGnContents : DiskWrite(DotGnPath, data)
    \/ \E path \in BuildFiles : WorkspaceFor(path)
    \/ \E path \in Analysable, request_time \in 1..MaxTime :
          AnalyzeFile(path, request_time)

SpecRegistry ==
    Init /\ [][NextRegistry /\ UNCHANGED <<asm, indexed, idx, sig, doc, buf, refs, act, conc>>]_vars

Cache == IF Root \in DOMAIN workspaces THEN workspaces[Root].cache ELSE EmptyMap

----------------------------------------------------------------------------
(* analyzer/mod.rs: assembling an environment.  collect_imports recurses; the   *)
(* calls it has still to make are kept in asm.stack, the next one first.  The    *)
(* analyzer is locked for the whole assembly, the document store is not.         *)

Children(file) == file.exports.children

\* collect_imports that does not look at the visited set
collect_imports_unguarded(a, analyzer) ==
    LET path == Head(a.stack)
        r == analyze_file(analyzer, path, a.time)
    IN [asm |-> [a EXCEPT !.visited = @ \cup {path},
                          !.analysed = Append(@, path),
                          !.files = Append(@, path),
                          !.stack = Children(r.file) \o Tail(a.stack)],
        cache |-> r.cache]

\* One call of collect_imports, up to its calls for the children
collect_imports(a, analyzer) ==
    LET path == Head(a.stack)
        r == analyze_file(analyzer, path, a.time)
    IN IF path \in a.visited
       THEN [asm |-> [a EXCEPT !.stack = Tail(@)], cache |-> analyzer.cache]
       ELSE [asm |-> [a EXCEPT !.visited = @ \cup {path},
                               !.analysed = Append(@, path),
                               !.files = Append(@, path),
                               !.stack = Children(r.file) \o Tail(a.stack)],
             cache |-> r.cache]

RECURSIVE ExtendExports(_, _, _)
\* for file in files.iter().rev() { environment.extend(file.exports) }
ExtendExports(environment, files, cache) ==
    IF files = << >> THEN environment
    ELSE LET file == cache[files[Len(files)]]
         IN ExtendExports([variables |-> MapExtend(environment.variables,
                                                   file.exports.variables),
                           templates |-> MapExtend(environment.templates,
                                                   file.exports.templates)],
                          SubSeq(files, 1, Len(files) - 1), cache)

NewEnvironment == [variables |-> EmptyMap, templates |-> EmptyMap]

\* The environment analyze_files builds from the collected files
analyze_files_environment(files, cache) == ExtendExports(NewEnvironment, files, cache)

\* The environment analyze_at builds: the imported files, then the locals of the
\* current file
analyze_at_environment(files, cache, pos) ==
    LET current_file == cache[Head(files)]
        imported == ExtendExports(NewEnvironment, Tail(files), cache)
        locals == LocalsOf[current_file.document.data, current_file.document.path, pos]
    IN [variables |-> MapExtend(imported.variables, locals.variables),
        templates |-> MapExtend(imported.templates, locals.templates)]

\* A request analyses a file and starts analyze_at on it
StartAnalyzeAt(path, pos, request_time) ==
    LET w == workspace_for(path)
        analyzer == w.workspaces[w.root]
        r == analyze_file(analyzer, path, request_time)
    IN /\ asm.phase \in {"idle", "done"}
       /\ w.ok
       /\ workspaces' = [w.workspaces EXCEPT ![w.root].cache = r.cache]
       /\ asm' = [NoAssembly EXCEPT
                    !.phase = "collect", !.mode = "at", !.start = path, !.pos = pos,
                    !.time = request_time, !.files = <<path>>, !.visited = {path},
                    !.stack = <<analyzer.context.build_config>> \o Children(r.file)]
       /\ last' = NoLast
       /\ UNCHANGED <<memory_docs, disk, edits, seen>>

\* analyze_files starts
StartAnalyzeFiles(path, request_time) ==
    LET w == workspace_for(path)
    IN /\ asm.phase \in {"idle", "done"}
       /\ w.ok
       /\ workspaces' = w.workspaces
       /\ asm' = [NoAssembly EXCEPT
                    !.phase = "collect", !.mode = "files", !.start = path,
                    !.time = request_time, !.stack = <<path>>]
       /\ last' = NoLast
       /\ UNCHANGED <<memory_docs, disk, edits, seen>>

CollectImports ==
    LET r == collect_imports(asm, workspaces[Root])
    IN /\ asm.phase = "collect"
       /\ asm.stack # << >>
       /\ asm' = r.asm
       /\ workspaces' = [workspaces EXCEPT ![Root].cache = r.cache]
       /\ UNCHANGED <<memory_docs, disk, edits, seen, last>>

\* Every call of collect_imports has returned: the environment is built
BuildEnvironment ==
    /\ asm.phase = "collect"
    /\ asm.stack = << >>
    /\ asm' = [asm EXCEPT
                 !.phase = "done",
                 !.env = IF asm.mode = "at"
                         THEN analyze_at_environment(asm.files, Cache, asm.pos)
                         ELSE analyze_files_environment(asm.files, Cache)]
    /\ UNCHANGED <<memory_docs, disk, workspaces, edits, seen, last>>

EnvEditable == {PathB}

NextEnv ==
    \/ /\ \/ \E path \in EnvEditable, revision \in Revisions :
                \E data \in ContentsOf(path) : LoadToMemory(path, data, revision)
          \/ \E path \in EnvEditable : UnloadFromMemory(path)
          \/ \E path \in EnvEditable : \E data \in ContentsOf(path) : DiskWrite(path, data)
       /\ UNCHANGED <<asm, indexed, idx, sig, doc, buf, refs, act, conc>>
    \/ /\ \/ \E path \in BuildFiles, pos \in Positions, request_time \in 1..MaxTime :
                StartAnalyzeAt(path, pos, request_time)
          \/ \E path \in BuildFiles, request_time \in 1..MaxTime :
                StartAnalyzeFiles(path, request_time)
          \/ CollectImports
          \/ BuildEnvironment
       /\ UNCHANGED <<indexed, idx, sig, doc, buf, refs, act, conc>>

SpecEnv == Init /\ [][NextEnv]_vars

\* collect_imports and the closure building the environment run to their end
SpecEnvFair ==
    /\ SpecEnv
    /\ WF_vars(CollectImports /\ UNCHANGED <<indexed, idx, sig, doc, buf, refs, act, conc>>)
    /\ WF_vars(BuildEnvironment /\ UNCHANGED <<indexed, idx, sig, doc, buf, refs, act, conc>>)

----------------------------------------------------------------------------
(* analyze_files as one call *)

\* A value computed once and handed to what follows
Bind(value, Then(_)) == CHOOSE result \in {Then(x) : x \in {value}} : TRUE

RECURSIVE RunCollectImports(_, _)
RunCollectImports(a, analyzer) ==
    IF a.stack = << >> THEN [asm |-> a, cache |-> analyzer.cache]
    ELSE Bind(collect_imports(a, analyzer),
              LAMBDA r : RunCollectImports(r.asm, [analyzer EXCEPT !.cache = r.cache]))

\* WorkspaceAnalyzer::analyze_files: the environment of a file and its imports
analyze_files(analyzer, path, request_time) ==
    Bind(RunCollectImports([NoAssembly EXCEPT
                               !.phase = "collect", !.mode = "files",
                               !.start = path, !.time = request_time,
                               !.stack = <<path>>],
                           analyzer),
         LAMBDA r : analyze_files_environment(r.asm.files, r.cache))

----------------------------------------------------------------------------
(* diagnostics/undefined.rs *)

\* true, false and the builtin symbols
builtin_scope == {<<"true">>, <<"false">>, <<"invoker">>, <<"defined">>}

BuiltinFunctions == {DECLARE_ARGS, FOREACH, FORWARD_VARIABLES_FROM, IMPORT,
                     SET_DEFAULTS, TEMPLATE, "group", "defined"}

EnvironmentTracker_new == [ok |-> TRUE, env |-> builtin_scope]

Untrackable == [ok |-> FALSE, env |-> {}]

may_contain(tracker, name) == IF tracker.ok THEN name \in tracker.env ELSE TRUE

\* insert that makes an untrackable tracker trackable again
tracker_insert_reviving(tracker, name) == [ok |-> TRUE, env |-> tracker.env \cup {name}]

tracker_insert(tracker, name) ==
    IF tracker.ok THEN [tracker EXCEPT !.env = @ \cup {name}] ELSE tracker

tracker_extend(tracker, names) ==
    IF tracker.ok THEN [tracker EXCEPT !.env = @ \cup names] ELSE tracker

RECURSIVE tracker_insert_all(_, _)
tracker_insert_all(tracker, names) ==
    IF names = << >> THEN tracker
    ELSE tracker_insert_all(tracker_insert(tracker, Head(names)), Tail(names))

\* Expr::as_simple_string_list: the strings of a list of simple string literals
as_simple_string_list(expr) ==
    IF expr.t = "list"
       /\ \A i \in 1..Len(expr.items) : as_simple_string(expr.items[i]) # None
    THEN Some([i \in 1..Len(expr.items) |-> expr.items[i].raw])
    ELSE None

\* The identifiers an expression reads (a primary expression, or a list of them)
IdentifiersOf(expr) ==
    CASE expr.t = "identifier" -> <<expr.raw>>
      [] expr.t = "list" ->
           LET names == SelectSeq(expr.items, LAMBDA x : x.t = "identifier")
           IN [i \in 1..Len(names) |-> names[i].raw]
      [] expr.t = "call" ->
           LET names == IF expr.raw = <<DEFINED>> THEN << >>
                        ELSE SelectSeq(expr.items, LAMBDA x : x.t = "identifier")
           IN <<expr.raw>> \o [i \in 1..Len(names) |-> names[i].raw]
      [] OTHER -> << >>

\* The expressions of a statement that are searched for identifiers
CheckedExpressions(statement) ==
    CASE Classify(statement) \in {"DeclareArgs", "Import", "Error"} -> << >>
      [] Classify(statement) = "Foreach" -> <<statement.args[2]>>
      [] OTHER -> statement.args

\* Identifier::collect_undefined_identifiers over the identifiers of a statement
UndefinedIn(statement, tracker) ==
    LET function == IF Classify(statement) = "BuiltinCall"
                       /\ statement.fn \notin BuiltinFunctions
                    THEN << <<statement.fn>> >> ELSE << >>
        names == function \o ConcatAll([i \in 1..Len(CheckedExpressions(statement)) |->
                                          IdentifiersOf(CheckedExpressions(statement)[i])])
        missing == SelectSeq(names, LAMBDA name : ~may_contain(tracker, name))
    IN [i \in 1..Len(missing) |-> [name |-> missing[i], at |-> statement.s]]

\* The tracker after a statement
UpdateTracker(statement, tracker, document, analyzer, request_time) ==
    CASE Classify(statement) = "Assignment" -> tracker_insert(tracker, statement.ident)
      [] Classify(statement) = "Foreach" -> tracker_insert(tracker, statement.args[1].raw)
      [] Classify(statement) = "ForwardVariablesFrom" ->
           IF as_simple_string_list(statement.args[2]) # None
           THEN tracker_insert_all(tracker, as_simple_string_list(statement.args[2])[1])
           ELSE Untrackable
      [] Classify(statement) = "Import" ->
           tracker_extend(tracker,
              DOMAIN analyze_files(analyzer,
                                   resolve_path(only_arg_simple_string(statement)[1],
                                                analyzer.context.root,
                                                Parent(document.path)),
                                   request_time).variables)
      [] OTHER -> tracker

RECURSIVE CollectStatements(_, _, _, _, _)
RECURSIVE CollectSubscopes(_, _, _, _, _)
\* AnalyzedBlock::collect_undefined_identifiers
collect_undefined_in_block(block, tracker, document, analyzer, request_time) ==
    CollectStatements(AnalyzedTopLevelStatements(analyze_block(block)),
                      [tracker |-> tracker, diagnostics |-> << >>],
                      document, analyzer, request_time)

\* The subscopes of a statement, each with a clone of the tracker
CollectSubscopes(scopes, tracker, document, analyzer, request_time) ==
    IF scopes = << >> THEN << >>
    ELSE CollectStatements(AnalyzedTopLevelStatements(analyze_block(Head(scopes).block)),
                           [tracker |-> tracker, diagnostics |-> << >>],
                           document, analyzer, request_time).diagnostics
         \o CollectSubscopes(Tail(scopes), tracker, document, analyzer, request_time)

\* A turn of the loop that adds the definition of the statement before its
\* expressions are searched
CollectStatement_defining_first(statement, acc, document, analyzer, request_time) ==
    LET defined == UpdateTracker(statement, acc.tracker, document, analyzer, request_time)
    IN [tracker |-> defined,
        diagnostics |-> acc.diagnostics
                        \o UndefinedIn(statement, defined)
                        \o CollectSubscopes(subscopes(statement), acc.tracker,
                                            document, analyzer, request_time)]

\* A turn of the loop that gives its own tracker to the first subscope, not a clone
CollectStatement_sharing(statement, acc, document, analyzer, request_time) ==
    LET scopes == subscopes(statement)
        shared == IF scopes = << >> THEN acc.tracker
                  ELSE CollectStatements(
                          AnalyzedTopLevelStatements(analyze_block(Head(scopes).block)),
                          [tracker |-> acc.tracker, diagnostics |-> << >>],
                          document, analyzer, request_time).tracker
    IN [tracker |-> UpdateTracker(statement, shared, document, analyzer, request_time),
        diagnostics |-> acc.diagnostics
                        \o UndefinedIn(statement, acc.tracker)
                        \o CollectSubscopes(scopes, acc.tracker,
                                            document, analyzer, request_time)]

\* One turn of the loop: the expressions of the statement, its subscopes, then
\* the tracker
CollectStatement(statement, acc, document, analyzer, request_time) ==
    [tracker |-> UpdateTracker(statement, acc.tracker, document, analyzer, request_time),
     diagnostics |-> acc.diagnostics
                     \o UndefinedIn(statement, acc.tracker)
                     \o CollectSubscopes(subscopes(statement), acc.tracker,
                                         document, analyzer, request_time)]

CollectStatements(statements, acc, document, analyzer, request_time) ==
    Bind([statements |-> statements, acc |-> acc],
         LAMBDA at :
            IF at.statements = << >> THEN at.acc
            ELSE CollectStatements(
                    Tail(at.statements),
                    CollectStatement(Head(at.statements), at.acc, document, analyzer,
                                     request_time),
                    document, analyzer, request_time))

\* collect_undefined_identifiers: the tracker starts with the builtins and the
\* variables of the build configuration's environment
collect_undefined_identifiers(block, document, analyzer, request_time) ==
    collect_undefined_in_block(
       block,
       tracker_extend(EnvironmentTracker_new,
                      DOMAIN analyze_files(analyzer, analyzer.context.build_config,
                                           request_time).variables),
       document, analyzer, request_time)

----------------------------------------------------------------------------
(* One document, written statement by statement and then analysed.  The k-th    *)
(* top-level statement spans 20*(k-1) .. 20*(k-1)+19; a body spans base+10 ..    *)
(* base+19 and the statements in it lie within base+11 .. base+18.               *)

Shapes == {"a = 1", "a = u", "_b = a", "c = y", "declare_args a", "foreach",
           "forward a", "forward names", "group a = u", "group forward names",
           "if a = u", "if forward names", "import b"}

ForwardNames(s, e) ==
    Call(FORWARD_VARIABLES_FROM, <<Ident(<<"invoker">>), Ident(<<"invoker_vars">>)>>, s, e)

\* The statement of a shape at base b
StatementOf(shape, b) ==
    CASE shape = "a = 1" -> AssignmentOf(<<"a">>, Integer, b, b + 19)
      [] shape = "a = u" -> AssignmentOf(<<"a">>, Ident(<<"u">>), b, b + 19)
      [] shape = "_b = a" -> AssignmentOf(<<"_", "b">>, Ident(<<"a">>), b, b + 19)
      [] shape = "c = y" -> AssignmentOf(<<"c">>, Ident(<<"y">>), b, b + 19)
      [] shape = "declare_args a" ->
           CallBlock(DECLARE_ARGS, << >>, <<AssignmentOf(<<"a">>, Integer, b + 11, b + 18)>>,
                     b, b + 10, b + 19)
      [] shape = "foreach" ->
           CallBlock(FOREACH, <<Ident(<<"i">>), List(<<Integer, Integer>>)>>,
                     <<AssignmentOf(<<"x">>, Ident(<<"i">>), b + 11, b + 18)>>,
                     b, b + 10, b + 19)
      [] shape = "foreach of one" ->
           CallBlock(FOREACH, <<List(<<Integer, Integer>>)>>,
                     <<AssignmentOf(<<"x">>, Integer, b + 11, b + 18)>>,
                     b, b + 10, b + 19)
      [] shape = "c = a" -> AssignmentOf(<<"c">>, Ident(<<"a">>), b, b + 19)
      [] shape = "a = a" -> AssignmentOf(<<"a">>, Ident(<<"a">>), b, b + 19)
      [] shape = "a = defined(a)" ->
           AssignmentOf(<<"a">>, CallExpr(DEFINED, <<Ident(<<"a">>)>>), b, b + 19)
      [] shape = "group c = a" ->
           CallBlock("group", <<Str(<<"g">>)>>,
                     <<AssignmentOf(<<"c">>, Ident(<<"a">>), b + 11, b + 18)>>,
                     b, b + 10, b + 19)
      [] shape = "group a = 1" ->
           CallBlock("group", <<Str(<<"g">>)>>,
                     <<AssignmentOf(<<"a">>, Integer, b + 11, b + 18)>>,
                     b, b + 10, b + 19)
      [] shape = "a = block c = a" ->
           AssignmentOf(<<"a">>,
                        BlockExpr(<<AssignmentOf(<<"c">>, Ident(<<"a">>), b + 11, b + 18)>>,
                                  b + 10, b + 19),
                        b, b + 19)
      [] shape = "template t" ->
           CallBlock(TEMPLATE, <<Str(<<"t">>)>>,
                     <<AssignmentOf(<<"a">>, Integer, b + 11, b + 18)>>,
                     b, b + 10, b + 19)
      [] shape = "group template t" ->
           CallBlock("group", <<Str(<<"g">>)>>,
                     <<CallBlock(TEMPLATE, <<Str(<<"t">>)>>,
                                 <<AssignmentOf(<<"a">>, Integer, b + 13, b + 16)>>,
                                 b + 11, b + 12, b + 17)>>,
                     b, b + 10, b + 19)
      [] shape = "set_defaults a" ->
           CallBlock(SET_DEFAULTS, <<Str(<<"g">>)>>,
                     <<AssignmentOf(<<"a">>, Integer, b + 11, b + 18)>>,
                     b, b + 10, b + 19)
      [] shape = "a = block" ->
           AssignmentOf(<<"a">>,
                        BlockExpr(<<AssignmentOf(<<"a">>, Integer, b + 11, b + 18)>>,
                                  b + 10, b + 19),
                        b, b + 19)
      [] shape = "forward a" ->
           Call(FORWARD_VARIABLES_FROM, <<Ident(<<"invoker">>), List(<<Str(<<"a">>)>>)>>,
                b, b + 19)
      [] shape = "forward names" -> ForwardNames(b, b + 19)
      [] shape = "group a = u" ->
           CallBlock("group", <<Str(<<"g">>)>>,
                     <<AssignmentOf(<<"a">>, Ident(<<"u">>), b + 11, b + 18)>>,
                     b, b + 10, b + 19)
      [] shape = "group forward names" ->
           CallBlock("group", <<Str(<<"g">>)>>,
                     <<ForwardNames(b + 11, b + 14),
                       AssignmentOf(<<"a">>, Ident(<<"u">>), b + 15, b + 18)>>,
                     b, b + 10, b + 19)
      [] shape = "if a = u" ->
           Condition(<< <<AssignmentOf(<<"a">>, Ident(<<"u">>), b + 11, b + 18)>> >>,
                     b, b + 19)
      [] shape = "if forward names" ->
           Condition(<< <<ForwardNames(b + 11, b + 18)>> >>, b, b + 19)
      [] OTHER -> Call(IMPORT, <<Str(<<"b.gni">>)>>, b, b + 19)

\* The positions locals are asked at: the start of each statement, a position
\* inside its body, and the end of the longest document
DocumentPositions ==
    {20 * (k - 1) + d : k \in 1..MaxStatements, d \in {0, 16}} \cup {20 * MaxStatements}

\* The document has the path of a.gni; its statements are not in the storage
WrittenDocument == [path |-> PathA, data |-> 0, version |-> InMemory(1)]

WriteStatement(shape) ==
    /\ ~doc.analysed
    /\ Len(doc.statements) < MaxStatements
    /\ doc' = [doc EXCEPT !.statements =
                 Append(@, StatementOf(shape, 20 * Len(doc.statements)))]

\* The document is analysed: its exports, its locals at pos, and the undefined
\* identifiers in it
AnalyzeDocument(pos, request_time) ==
    /\ ~doc.analysed
    /\ doc.statements # << >>
    /\ \E w \in {workspace_for(WrittenDocument.path)} :
       \E analyzer \in {w.workspaces[w.root]} :
       \E undefined \in {collect_undefined_identifiers(doc.statements, WrittenDocument,
                                                       analyzer, request_time)} :
       /\ w.ok
       /\ doc' = [doc EXCEPT
                    !.analysed = TRUE,
                    !.pos = pos,
                    !.exports = analyze_exports(doc.statements, WrittenDocument,
                                                analyzer.context),
                    !.locals = local_variables_at(doc.statements, WrittenDocument, pos),
                    !.tracker = undefined.tracker,
                    !.diagnostics = undefined.diagnostics]

NextAnalysis ==
    /\ \/ \E shape \in Shapes : WriteStatement(shape)
       \/ \E pos \in DocumentPositions, request_time \in 1..MaxTime :
             AnalyzeDocument(pos, request_time)
    /\ UNCHANGED <<memory_docs, disk, workspaces, edits, seen, last, asm, indexed, idx, sig, buf,
                   refs, act, conc>>

SpecAnalysis == Init /\ [][NextAnalysis]_vars

\* The statements the two iterators of toplevel.rs are compared on: among them a
\* foreach call with a block and a single argument
TopLevelShapes == {"a = 1", "declare_args a", "foreach", "foreach of one", "if a = u",
                   "group a = u"}

NextTopLevel ==
    /\ \/ \E shape \in TopLevelShapes : WriteStatement(shape)
       \/ \E pos \in DocumentPositions : AnalyzeDocument(pos, 1)
    /\ UNCHANGED <<memory_docs, disk, workspaces, edits, seen, last, asm, indexed, idx, sig, buf,
                   refs, act, conc>>

SpecTopLevel == Init /\ [][NextTopLevel]_vars

\* The statements the undefined-identifier pass is followed on: definitions by an
\* assignment, a foreach, a forward_variables_from and an import, uses at the top
\* level, in a body and in a block expression, and a use inside defined()
UndefinedShapes == {"a = 1", "c = a", "a = a", "a = defined(a)", "c = y", "foreach",
                    "forward a", "import b", "group c = a", "group a = 1",
                    "a = block c = a"}

NextUndefined ==
    /\ \/ \E shape \in UndefinedShapes : WriteStatement(shape)
       \/ AnalyzeDocument(0, 1)
    /\ UNCHANGED <<memory_docs, disk, workspaces, edits, seen, last, asm, indexed, idx, sig, buf,
                   refs, act, conc>>

SpecUndefined == Init /\ [][NextUndefined]_vars

\* The statements locals are asked about: bodies of a target, of a template, of
\* a template in a target and of another call, and a block in an expression
LocalShapes == {"a = 1", "group a = u", "template t", "group template t",
                "set_defaults a", "a = block"}

\* The positions they are asked at: before a body, at its bounds and inside it,
\* and the same for the body of the template in the target
LocalPositions ==
    {20 * (k - 1) + d : k \in 1..MaxStatements, d \in {5, 10, 11, 12, 14, 17, 18, 19}}

\* local_variables_at and local_templates_at of the document, at pos
LocalsAt(pos) ==
    /\ ~doc.analysed
    /\ doc.statements # << >>
    /\ doc' = [doc EXCEPT
                 !.analysed = TRUE,
                 !.pos = pos,
                 !.locals = local_variables_at(doc.statements, WrittenDocument, pos),
                 !.templates = local_templates_at(doc.statements, WrittenDocument, pos)]

NextLocals ==
    /\ \/ \E shape \in LocalShapes : WriteStatement(shape)
       \/ \E pos \in LocalPositions : LocalsAt(pos)
    /\ UNCHANGED <<memory_docs, disk, workspaces, edits, seen, last, asm, indexed, idx, sig, buf,
                   refs, act, conc>>

SpecLocals == Init /\ [][NextLocals]_vars

----------------------------------------------------------------------------
(* server/imports.rs: inserting an import.  A text is a sequence of tokens, an   *)
(* import statement or a newline; offsets count tokens.  An import path is the   *)
(* sequence of the bytes after the leading //.                                   *)

Newline == [import |-> FALSE, path |-> << >>]
ImportToken(path) == [import |-> TRUE, path |-> path]

\* //a, //ab, //b, //c and //d\b
ImportPaths == {<<97>>, <<97, 98>>, <<98>>, <<99>>, <<100, 92, 98>>}

\* A string literal with a backslash or a dollar is not a simple literal
simple_path(path) == \A i \in 1..Len(path) : path[i] \notin {92, 36}

\* str > str: the comparison of the bytes, a proper prefix being the smaller
RECURSIVE str_gt(_, _)
str_gt(a, b) ==
    IF a = << >> THEN FALSE
    ELSE IF b = << >> THEN TRUE
    ELSE IF Head(a) # Head(b) THEN Head(a) > Head(b)
    ELSE str_gt(Tail(a), Tail(b))

\* The top-level statements of a text with their spans: a call of import is
\* analyzed as Import when its argument is a simple string
analyzed_statements(text) ==
    LET at == SelectSeq([i \in 1..Len(text) |-> i], LAMBDA i : text[i].import)
    IN [j \in 1..Len(at) |->
          [import |-> simple_path(text[at[j]].path), name |-> text[at[j]].path,
           s |-> at[j] - 1, e |-> at[j]]]

get_import(statement) == IF statement.import THEN Some(statement.name) ELSE None

RECURSIVE skip_while_not_import(_)
skip_while_not_import(statements) ==
    IF statements # << >> /\ get_import(Head(statements)) = None
    THEN skip_while_not_import(Tail(statements))
    ELSE statements

RECURSIVE take_while_import(_)
take_while_import(statements) ==
    IF statements # << >> /\ get_import(Head(statements)) # None
    THEN <<Head(statements)>> \o take_while_import(Tail(statements))
    ELSE << >>

create_import_edit(text, import) ==
    LET statements == analyzed_statements(text)
        first_import_block == take_while_import(skip_while_not_import(statements))
        greater == SelectSeq(first_import_block,
                             LAMBDA statement : str_gt(get_import(statement)[1], import))
    IN IF first_import_block = << >>
       THEN [offset |-> IF statements # << >> THEN statements[1].s ELSE Len(text),
             new_text |-> <<ImportToken(import), Newline, Newline>>]
       ELSE IF greater # << >>
       THEN [offset |-> greater[1].s, new_text |-> <<ImportToken(import), Newline>>]
       ELSE [offset |-> first_import_block[Len(first_import_block)].e,
             new_text |-> <<Newline, ImportToken(import)>>]

\* The text after the client applied an edit with an empty range
apply_edit(text, edit) ==
    SubSeq(text, 1, edit.offset) \o edit.new_text \o SubSeq(text, edit.offset + 1, Len(text))

\* The edit computed for a path not yet imported is applied to the file
InsertImport(path) ==
    /\ Len(buf.inserted) < MaxImports
    /\ \A i \in 1..Len(buf.inserted) : buf.inserted[i] # path
    /\ buf' = [text |-> apply_edit(buf.text, create_import_edit(buf.text, path)),
               inserted |-> Append(buf.inserted, path)]

NextImports ==
    /\ \E path \in ImportPaths : InsertImport(path)
    /\ UNCHANGED <<memory_docs, disk, workspaces, edits, seen, last, asm, indexed, idx, sig,
                   doc, refs, act, conc>>

SpecImports == Init /\ [][NextImports]_vars

----------------------------------------------------------------------------
(* server/providers/references.rs.  The current file F defines targets; the      *)
(* cached files hold links to F in their link indexes.  A target name is a       *)
(* sequence of pieces, so that foo is a prefix of foo_tests and of foobar.        *)

TargetNames == {<<"foo">>, <<"foo", "_tests">>, <<"foo", "_tests", "_x">>,
                <<"foo", "bar">>, <<"bar">>}

\* str::starts_with
starts_with(name, prefix) == IsPrefix(prefix, name)

\* get_overlapping_targets that finds no target
get_overlapping_targets_none(targets, prefix) == {}

\* The targets of the file that are longer than the name and start with it
get_overlapping_targets(targets, prefix) ==
    {target \in targets : Len(target) > Len(prefix) /\ starts_with(target, prefix)}

\* target_references that keeps the links to the very name only
target_references_exact(targets, links, target_name) ==
    LET kept == SelectSeq(links, LAMBDA link :
                   link.kind = "Target" /\ link.name = target_name)
    IN [i \in 1..Len(kept) |-> [file |-> kept[i].file, at |-> kept[i].at]]

\* links: the link-index entries for the current file, cached file by cached file
target_references(targets, links, target_name) ==
    LET bad_prefixes == get_overlapping_targets(targets, target_name)
        kept == SelectSeq(links, LAMBDA link :
                   /\ link.kind = "Target"
                   /\ ~\E bad_prefix \in bad_prefixes : starts_with(link.name, bad_prefix)
                   /\ starts_with(link.name, target_name))
    IN [i \in 1..Len(kept) |-> [file |-> kept[i].file, at |-> kept[i].at]]

\* The current file defines one more target
DefineTarget(name) ==
    /\ refs.asked = None
    /\ name \notin refs.targets
    /\ refs' = [refs EXCEPT !.targets = @ \cup {name}]

\* A cached file holds one more link to the current file: a link to the file, or
\* a link to a target of it by name
AddLink(file, kind, name) ==
    /\ refs.asked = None
    /\ Len(refs.links) < MaxLinks
    /\ refs' = [refs EXCEPT !.links =
                  Append(@, [file |-> file, kind |-> kind,
                             name |-> IF kind = "Target" THEN name ELSE << >>,
                             at |-> Len(refs.links) + 1])]

\* references on the name of a target the current file defines
TargetReferences(target_name) ==
    /\ refs.asked = None
    /\ target_name \in refs.targets
    /\ refs' = [refs EXCEPT !.asked = Some(target_name),
                            !.reply = target_references(refs.targets, refs.links,
                                                        target_name)]

NextReferences ==
    /\ \/ \E name \in TargetNames : DefineTarget(name)
       \/ \E file \in BuildFiles, kind \in {"File", "Target"}, name \in TargetNames :
             AddLink(file, kind, name)
       \/ \E name \in TargetNames : TargetReferences(name)
    /\ UNCHANGED <<memory_docs, disk, workspaces, edits, seen, last, asm, indexed, idx, sig,
                   doc, buf, act, conc>>

SpecReferences == Init /\ [][NextReferences]_vars

----------------------------------------------------------------------------
(* did_open and the indexing task *)

\* The request time of the did_open request that spawned the task
IndexRequestTime == 1

\* did_open: the request is taken and awaits the client's configuration
DidOpen(p, path) ==
    /\ idx.opens[p].pc = "idle"
    /\ idx' = [idx EXCEPT !.opens[p] = [pc |-> "configured", path |-> path]]
    /\ UNCHANGED <<memory_docs, disk, workspaces, edits, seen, last, indexed>>

\* did_open: background indexing is configured; parallel is the configured mode
MaybeIndexWorkspaceFor(p, parallel) ==
    LET r == maybe_index_workspace_for(indexed, idx.tasks, idx.opens[p].path, parallel)
    IN /\ idx.opens[p].pc = "configured"
       /\ indexed' = r.indexed
       /\ idx' = [idx EXCEPT !.opens[p].pc = "indexed", !.tasks = r.tasks]
       /\ UNCHANGED <<memory_docs, disk, workspaces, edits, seen, last>>

\* did_open: the document of the editor is loaded to memory
DocumentDidOpen(p) ==
    /\ idx.opens[p].pc = "indexed"
    /\ LoadToMemory(idx.opens[p].path, disk[idx.opens[p].path].data, 1)
    /\ idx' = [idx EXCEPT !.opens[p].pc = "opened"]
    /\ UNCHANGED indexed

\* index: the files to scan are listed, one future each
IndexScan(k) ==
    /\ idx.tasks[k].state = "spawned"
    /\ idx' = [idx EXCEPT !.tasks[k].state = "joining",
                          !.tasks[k].todo = find_gn_in_workspace_for_scan(idx.tasks[k].root)]
    /\ UNCHANGED <<memory_docs, disk, workspaces, edits, seen, last, indexed>>

\* What the analyzer holds after analyze_file(path, request_time).ok()
Analyzed(path, request_time) ==
    LET w == workspace_for(path)
        r == analyze_file(w.workspaces[w.root], path, request_time)
    IN IF w.ok THEN [w.workspaces EXCEPT ![w.root].cache = r.cache] ELSE workspaces

\* The future of one file when the Result of analyze_file is unwrapped: an Err
\* ends the task that polls it
ok_unwrapped(task, path, is_ok) ==
    IF is_ok
    THEN [task EXCEPT !.tried = @ \cup {path}]
    ELSE [task EXCEPT !.state = "panicked"]

\* analyzer.analyze_file(&path, request_time).ok(): the future of one file is
\* complete whatever the Result, and an Err is dropped
ok(task, path, is_ok) ==
    [task EXCEPT !.tried = @ \cup {path},
                 !.failed = IF is_ok THEN @ ELSE @ \cup {path}]

\* join_all polls the next future: in sequential mode it analyses its file, in
\* parallel mode it spawns a task that will, and is complete
IndexPoll(k) ==
    LET task == idx.tasks[k]
        path == Head(task.todo)
    IN /\ task.state = "joining"
       /\ task.todo # << >>
       /\ IF task.parallel
          THEN /\ idx' = [idx EXCEPT !.tasks[k].todo = Tail(@),
                                     !.tasks[k].running = @ \cup {path}]
               /\ UNCHANGED workspaces
          ELSE /\ idx' = [idx EXCEPT !.tasks[k] =
                            ok([@ EXCEPT !.todo = Tail(@)], path, workspace_for(path).ok)]
               /\ workspaces' = Analyzed(path, task.time)
       /\ UNCHANGED <<memory_docs, disk, edits, seen, last, indexed>>

\* A task spawned in parallel mode runs
SpawnedAnalysis(k, path) ==
    /\ path \in idx.tasks[k].running
    /\ workspaces' = Analyzed(path, idx.tasks[k].time)
    /\ idx' = [idx EXCEPT !.tasks[k] =
                  ok([@ EXCEPT !.running = @ \ {path}], path, workspace_for(path).ok)]
    /\ UNCHANGED <<memory_docs, disk, edits, seen, last, indexed>>

\* join_all has returned: index returns and the spawned task sets its signal
IndexedSet(k) ==
    LET task == idx.tasks[k]
    IN /\ task.state = "joining"
       /\ task.todo = << >>
       /\ idx' = [idx EXCEPT !.tasks[k].state = "finished"]
       /\ indexed' = [indexed EXCEPT
                        !.signals[task.barrier] = AsyncSignal_set(@).signal]
       /\ UNCHANGED <<memory_docs, disk, workspaces, edits, seen, last>>

\* index is called for a workspace root once more, by a request made at
\* request_time, after the runs before it have returned; the cache as it was
\* before the first run is kept for comparison
RunIndex(parallel, request_time) ==
    /\ Len(idx.tasks) < MaxRuns
    /\ \A k \in 1..Len(idx.tasks) : idx.tasks[k].state = "finished"
    /\ indexed' = [indexed EXCEPT !.signals = Append(@, AsyncSignal_new)]
    /\ idx' = [idx EXCEPT
                 !.tasks = Append(@, [root |-> Root, barrier |-> Len(indexed.signals) + 1,
                                      parallel |-> parallel, state |-> "spawned",
                                      time |-> request_time,
                                      todo |-> << >>, running |-> {},
                                      tried |-> {}, failed |-> {}]),
                 !.before = IF idx.tasks = << >> THEN Some(workspaces) ELSE @]
    /\ UNCHANGED <<memory_docs, disk, workspaces, edits, seen, last>>

\* Documents are loaded and files analyzed by requests before the first run; from
\* then on the document store stays as it is
NextReindex ==
    /\ \/ \E path \in EnvEditable : \E data \in ContentsOf(path) :
             idx.tasks = << >> /\ LoadToMemory(path, data, 1)
                /\ UNCHANGED <<indexed, idx>>
       \/ \E path \in EnvEditable, request_time \in 1..MaxTime :
             idx.tasks = << >> /\ AnalyzeFile(path, request_time)
                /\ UNCHANGED <<indexed, idx>>
       \/ \E parallel \in BOOLEAN, request_time \in 1..MaxTime :
             RunIndex(parallel, request_time)
       \/ \E k \in 1..Len(idx.tasks) : IndexScan(k)
       \/ \E k \in 1..Len(idx.tasks) : IndexPoll(k)
       \/ \E k \in 1..Len(idx.tasks), path \in BuildFiles : SpawnedAnalysis(k, path)
       \/ \E k \in 1..Len(idx.tasks) : IndexedSet(k)
    /\ UNCHANGED <<asm, sig, doc, buf, refs, act, conc>>

SpecReindex == Init /\ [][NextReindex]_vars

\* WorkspaceAnalyzer::cached_files_for_references: every cached file
cached_files_for_references(analyzer) ==
    {path \in DOMAIN analyzer.cache : TRUE}

\* WorkspaceAnalyzer::cached_files_for_symbols: the cached files that are not external
cached_files_for_symbols(analyzer) ==
    {path \in DOMAIN analyzer.cache : ~analyzer.cache[path].external}

\* references: the request analyses the current file, finds a target name under
\* the cursor and waits for the workspace's barrier
References(r, path) ==
    LET w == workspace_for(path)
    IN /\ idx.requests[r].pc = "idle"
       /\ w.ok
       /\ w.root \in DOMAIN indexed.map
       /\ workspaces' = Analyzed(path, IndexRequestTime)
       /\ idx' = [idx EXCEPT !.requests[r] =
                     [pc |-> "waiting", kind |-> "references", root |-> w.root,
                      files |-> {}]]
       /\ UNCHANGED <<memory_docs, disk, edits, seen, last, indexed>>

\* workspace_symbol: SymbolSet::global calls scan_files() of a workspace, which
\* waits for its barrier
WorkspaceSymbol(r) ==
    /\ idx.requests[r].pc = "idle"
    /\ \E root \in DOMAIN workspaces \cap DOMAIN indexed.map :
          idx' = [idx EXCEPT !.requests[r] =
                    [pc |-> "waiting", kind |-> "workspace_symbol", root |-> root,
                     files |-> {}]]
    /\ UNCHANGED <<memory_docs, disk, workspaces, edits, seen, last, indexed>>

\* wait() has returned: the request reads the cached files of the workspace
RequestResume(r) ==
    LET request == idx.requests[r]
    IN /\ request.pc = "waiting"
       /\ AsyncSignal_wait_ready(indexed.signals[indexed.map[request.root]])
       /\ idx' = [idx EXCEPT !.requests[r].pc = "returned",
                             !.requests[r].files =
                                IF request.kind = "references"
                                THEN cached_files_for_references(workspaces[request.root])
                                ELSE cached_files_for_symbols(workspaces[request.root])]
       /\ UNCHANGED <<memory_docs, disk, workspaces, edits, seen, last, indexed>>

NextIndex ==
    /\ \/ \E p \in Procs, path \in {PathA, PathB} : DidOpen(p, path)
       \/ \E r \in Requests, path \in {PathA, PathB} : References(r, path)
       \/ \E r \in Requests : WorkspaceSymbol(r)
       \/ \E r \in Requests : RequestResume(r)
       \/ \E p \in Procs, parallel \in BOOLEAN : MaybeIndexWorkspaceFor(p, parallel)
       \/ \E p \in Procs : DocumentDidOpen(p)
       \/ \E k \in 1..Len(idx.tasks) : IndexScan(k)
       \/ \E k \in 1..Len(idx.tasks) : IndexPoll(k)
       \/ \E k \in 1..Len(idx.tasks), path \in BuildFiles : SpawnedAnalysis(k, path)
       \/ \E k \in 1..Len(idx.tasks) : IndexedSet(k)
    /\ UNCHANGED <<asm, sig, doc, buf, refs, act, conc>>

SpecIndex == Init /\ [][NextIndex]_vars

\* The .gn file of the workspace is edited while the workspace is indexed: with
\* the edited file in memory (no bytes, so no buildconfig) evaluate_dot_gn fails,
\* and with it analyze_file
NextIndexFail ==
    /\ \/ /\ ~ memory_docs[DotGnPath].present
          /\ LoadToMemory(DotGnPath, 0, 1)
          /\ UNCHANGED <<indexed, idx>>
       \/ UnloadFromMemory(DotGnPath) /\ UNCHANGED <<indexed, idx>>
       \/ DidOpen(1, PathA)
       \/ \E r \in Requests : References(r, PathB)
       \/ \E r \in Requests : WorkspaceSymbol(r)
       \/ \E r \in Requests : RequestResume(r)
       \/ \E parallel \in BOOLEAN : MaybeIndexWorkspaceFor(1, parallel)
       \/ \E k \in 1..Len(idx.tasks) : IndexScan(k)
       \/ \E k \in 1..Len(idx.tasks) : IndexPoll(k)
       \/ \E k \in 1..Len(idx.tasks), path \in BuildFiles : SpawnedAnalysis(k, path)
       \/ \E k \in 1..Len(idx.tasks) : IndexedSet(k)
    /\ UNCHANGED <<asm, sig, doc, buf, refs, act, conc>>

SpecIndexFail == Init /\ [][NextIndexFail]_vars

\* The runtime runs every task that is ready: the task spawned for index, the
\* tasks index spawns, and the requests whose wait() is ready
SpecIndexFailFair ==
    /\ SpecIndexFail
    /\ WF_vars((\E k \in 1..Len(idx.tasks) : IndexScan(k))
                  /\ UNCHANGED <<asm, sig, doc, buf, refs, act, conc>>)
    /\ WF_vars((\E k \in 1..Len(idx.tasks) : IndexPoll(k))
                  /\ UNCHANGED <<asm, sig, doc, buf, refs, act, conc>>)
    /\ WF_vars((\E k \in 1..Len(idx.tasks), path \in BuildFiles : SpawnedAnalysis(k, path))
                  /\ UNCHANGED <<asm, sig, doc, buf, refs, act, conc>>)
    /\ WF_vars((\E k \in 1..Len(idx.tasks) : IndexedSet(k))
                  /\ UNCHANGED <<asm, sig, doc, buf, refs, act, conc>>)
    /\ \A r \in Requests :
          WF_vars(RequestResume(r) /\ UNCHANGED <<asm, sig, doc, buf, refs, act, conc>>)

----------------------------------------------------------------------------
(* server/providers/code_action.rs: the quick fix for an undefined name *)

DIAGNOSTIC_CODE_UNDEFINED == "undefined"
CHOOSE_IMPORT_CANDIDATES == "gn.chooseImportCandidates"

\* The bytes of the pieces that file names and import strings are made of
PieceBytes(piece) ==
    CASE piece = "//" -> <<47, 47>>
      [] piece = "a.gni" -> <<97, 46, 103, 110, 105>>
      [] piece = "b.gni" -> <<98, 46, 103, 110, 105>>
      [] piece = "BUILDCONFIG.gn" ->
           <<66, 85, 73, 76, 68, 67, 79, 78, 70, 73, 71, 46, 103, 110>>
      [] piece = ".gn" -> <<46, 103, 110>>
      [] piece = "w" -> <<119>>

\* The bytes of a string literal
RECURSIVE StrBytes(_)
StrBytes(pieces) ==
    IF pieces = << >> THEN << >> ELSE PieceBytes(Head(pieces)) \o StrBytes(Tail(pieces))

\* The components of a path joined by the separator
RECURSIVE JoinPath(_)
JoinPath(components) ==
    IF components = << >> THEN << >>
    ELSE IF Len(components) = 1 THEN PieceBytes(components[1])
    ELSE PieceBytes(Head(components)) \o <<47>> \o JoinPath(Tail(components))

\* format_path that names every file by the workspace root
format_path_of_root(path, workspace_root) == <<47, 47>>

format_path(path, workspace_root) ==
    IF IsPrefix(workspace_root, path)
    THEN <<47, 47>> \o JoinPath(SubSeq(path, Len(workspace_root) + 1, Len(path)))
    ELSE <<47>> \o JoinPath(path)

\* Itertools::sorted on strings
RECURSIVE insert_sorted(_, _)
insert_sorted(strings, s) ==
    IF strings = << >> THEN <<s>>
    ELSE IF str_gt(Head(strings), s) THEN <<s>> \o strings
    ELSE <<Head(strings)>> \o insert_sorted(Tail(strings), s)

RECURSIVE sorted(_)
sorted(strings) ==
    IF strings = << >> THEN << >> ELSE insert_sorted(sorted(Tail(strings)), Head(strings))

\* BTreeMap::values: the entries in the order of their keys, here any one order,
\* which the sort makes immaterial
ValuesOf(keys) ==
    CHOOSE s \in [1..Cardinality(keys) -> keys] : \A key \in keys : \E i \in DOMAIN s : s[i] = key

\* get_import of code_action.rs: the name of a statement analyzed as Import
code_action_get_import(statement) ==
    IF Classify(statement) = "Import"
    THEN Some(StrBytes(only_arg_simple_string(statement)[1]))
    ELSE None

RECURSIVE skip_while_no_import(_)
skip_while_no_import(statements) ==
    IF statements # << >> /\ code_action_get_import(Head(statements)) = None
    THEN skip_while_no_import(Tail(statements))
    ELSE statements

RECURSIVE take_while_some_import(_)
take_while_some_import(statements) ==
    IF statements # << >> /\ code_action_get_import(Head(statements)) # None
    THEN <<Head(statements)>> \o take_while_some_import(Tail(statements))
    ELSE << >>

\* document.data.len(): the catalogue's documents end with their last statement
document_len(data) ==
    IF parse(data) = << >> THEN 0 ELSE parse(data)[Len(parse(data))].e

compute_import_edit(current_file, import) ==
    LET statements == analyze_block(parse(current_file.document.data))
        first_import_block == take_while_some_import(skip_while_no_import(statements))
        greater == SelectSeq(first_import_block, LAMBDA statement :
                      str_gt(code_action_get_import(statement)[1], import))
    IN IF first_import_block = << >>
       THEN [offset |-> IF statements # << >> THEN statements[1].s
                        ELSE document_len(current_file.document.data),
             prefix |-> "", import |-> import, suffix |-> "\n\n"]
       ELSE IF greater # << >>
       THEN [offset |-> greater[1].s, prefix |-> "", import |-> import, suffix |-> "\n"]
       ELSE [offset |-> first_import_block[Len(first_import_block)].e,
             prefix |-> "\n", import |-> import, suffix |-> ""]

\* The code actions for one diagnostic naming `name`, computed on the workspace's
\* cache as it is after the current file was analyzed
compute_import_actions(analyzer, current_file, name) ==
    LET workspace_files == cached_files_for_symbols(analyzer)
        exporting == {path \in workspace_files :
                         name \in DOMAIN analyzer.cache[path].exports.variables}
        values == ValuesOf(exporting)
        imports == sorted([i \in 1..Len(values) |->
                             format_path(analyzer.cache[values[i]].document.path,
                                         analyzer.cache[values[i]].workspace_root)])
    IN IF imports = << >> THEN << >>
       ELSE IF Len(imports) = 1
       THEN << [kind |-> "quickfix",
                edit |-> Some(compute_import_edit(current_file, imports[1])),
                command |-> None,
                candidates |-> << >>] >>
       ELSE << [kind |-> "quickfix",
                edit |-> None,
                command |-> Some(CHOOSE_IMPORT_CANDIDATES),
                candidates |-> [i \in 1..Len(imports) |->
                                  [import |-> imports[i],
                                   edit |-> compute_import_edit(current_file,
                                                                imports[i])]]] >>

NoAction == [asked |-> None, code |-> "", path |-> << >>, reply |-> << >>]

\* The names diagnostics carry: exported by some documents, private to one, and
\* defined nowhere
UndefinedNames == {<<"x">>, <<"y">>, <<"_", "p">>, <<"n">>}

\* code_action for a request with one diagnostic of the given code on a name
CodeAction(path, code, name, request_time) ==
    LET w == workspace_for(path)
        r == analyze_file(w.workspaces[w.root], path, request_time)
        analyzer == [w.workspaces[w.root] EXCEPT !.cache = r.cache]
    IN IF code = DIAGNOSTIC_CODE_UNDEFINED /\ w.ok
       THEN /\ AnalyzeFile(path, request_time)
            /\ act' = [asked |-> Some(name), code |-> code, path |-> path,
                       reply |-> compute_import_actions(analyzer, r.file, name)]
       ELSE /\ act' = [asked |-> Some(name), code |-> code, path |-> path, reply |-> << >>]
            /\ UNCHANGED <<memory_docs, disk, workspaces, edits, seen, last>>

\* Documents are loaded and files analyzed by other requests; the reply to a code
\* action request is read before the next such request is made
NextActions ==
    /\ \/ \E path \in Editable, data \in BuildContents :
             LoadToMemory(path, data, 1) /\ act' = NoAction
       \/ \E path \in BuildFiles :
             AnalyzeFile(path, IndexRequestTime) /\ act' = NoAction
       \/ \E path \in Editable, code \in {DIAGNOSTIC_CODE_UNDEFINED, "syntax"},
             name \in UndefinedNames :
             act.asked = None /\ CodeAction(path, code, name, MaxTime)
    /\ UNCHANGED <<asm, indexed, idx, sig, doc, buf, refs, conc>>

SpecActions == Init /\ [][NextActions]_vars

----------------------------------------------------------------------------
(* One AsyncSignal, its clones, and the tasks that use them *)

SignalClone ==
    /\ sig.clones < MaxClones
    /\ sig' = [sig EXCEPT !.clones = @ + 1]

\* set() through the signal (handle 0) or one of its clones
SignalSet(handle) ==
    LET r == AsyncSignal_set(sig.signal)
    IN /\ Len(sig.returns) < MaxSets
       /\ sig' = [sig EXCEPT !.signal = r.signal,
                             !.returns = Append(@, [by |-> handle, result |-> r.result])]

SignalDone ==
    sig' = [sig EXCEPT !.read = [value |-> AsyncSignal_done(sig.signal),
                                 sets |-> Len(sig.returns)]]

\* wait() is called: it returns at once when the signal is done
SignalWait(w) ==
    /\ sig.waits[w] = "idle"
    /\ sig' = [sig EXCEPT !.waits[w] = IF AsyncSignal_wait_ready(sig.signal)
                                       THEN "returned" ELSE "waiting"]

\* A pending wait() is woken
SignalWake(w) ==
    /\ sig.waits[w] = "waiting"
    /\ AsyncSignal_wait_ready(sig.signal)
    /\ sig' = [sig EXCEPT !.waits[w] = "returned"]

NextSignal ==
    /\ \/ SignalClone
       \/ \E handle \in 0..sig.clones : SignalSet(handle)
       \/ SignalDone
       \/ \E w \in Waiters : SignalWait(w)
       \/ \E w \in Waiters : SignalWake(w)
    /\ UNCHANGED <<memory_docs, disk, workspaces, edits, seen, last, asm, indexed, idx, doc, buf,
                   refs, act, conc>>

SpecSignal == Init /\ [][NextSignal]_vars

----------------------------------------------------------------------------
(* The file cache: C1 - C4 *)

\* The exports, link index and outline of a file
View(file) ==
    [exports |-> file.exports, link_index |-> file.link_index, outline |-> file.outline]

FromScratch(path) == analyze_file_uncached(workspaces[Root].context, path, MaxTime)

\* C1: whenever analyze_file(path, now) returns the cached file because its key
\* verified at now (the stored version was compared with the key's and found
\* equal), analysing the current Document of path from scratch yields the same
\* exports, link index and outline as the returned file has.
C1_CacheCorrectness ==
    (last.op = "analyze_file" /\ last.hit /\ last.checked)
        => View(FromScratch(last.path)) = View(Cache[last.path])

\* C3: when a load_to_memory of path has completed (its document is the one the
\* store holds) and analyze_file(path, t2) is called with t2 later than the
\* request_time of every earlier analysis of path, the returned file is built from
\* the document the store holds, not from a document older than the load; and a
\* cached file is returned without a version comparison only when t2 is not later
\* than an earlier request_time.
C3_LaterRequestObservesLoad ==
    (last.op = "analyze_file")
        => /\ (last.later /\ memory_docs[last.path].present)
                => last.file[1].document = read(last.path)
           /\ (last.hit /\ ~last.checked) => ~last.later

\* The paths a cached file of path was made from: the file itself, every path
\* its cached imports reach, and the build configuration
RECURSIVE Reach(_, _)
Reach(frontier, found) ==
    IF frontier \subseteq found THEN found
    ELSE LET path == CHOOSE q \in frontier \ found : TRUE
             children == IF path \in DOMAIN Cache
                         THEN {Cache[path].exports.children[i] :
                                  i \in 1..Len(Cache[path].exports.children)}
                         ELSE {}
         IN Reach((frontier \cup children) \ {path}, found \cup {path})

Contributors(path) == Reach({path, workspaces[Root].context.build_config}, {})

JustBuilt(path) == last.op = "analyze_file" /\ last.path = path /\ ~last.hit

WithoutRequestTime(file) == [file EXCEPT !.key.request_time = 0]

\* C4: analyze_file(path, now) returns the file stored in the cache iff an entry
\* for path exists and its key verifies at now; otherwise it builds a new file from
\* the stored document and replaces the entry; after the call the entry of path is
\* the returned file, and no entry of another path was added, removed or changed.
C4_AnalyzeFileCache ==
    [][last'.op = "analyze_file" =>
         LET path == last'.path
             now == last'.time
             post == Cache'
             verifies == path \in DOMAIN Cache /\ CacheKey_verify(Cache[path].key, now).ok
         IN /\ last'.hit <=> verifies
            /\ verifies => WithoutRequestTime(post[path]) = WithoutRequestTime(Cache[path])
            /\ ~verifies =>
                  /\ post[path].document = read(path)
                  /\ post[path].key = CacheKey_new(path, read_version(path), now)
                  /\ View(post[path]) =
                        View(analyze_file_uncached(workspaces'[Root].context, path, now))
            /\ last'.file = Some(FileId(post[path]))
            /\ DOMAIN post = (DOMAIN Cache) \cup {path}
            /\ \A q \in (DOMAIN Cache) \ {path} : post[q] = Cache[q]]_vars

\* A call that replaced a stale entry while another path's entry stayed in the cache
C4_Witness ==
    /\ last.op = "analyze_file" /\ ~last.hit /\ last.checked
    /\ Cardinality(DOMAIN Cache) = 2

----------------------------------------------------------------------------
(* Environment assembly: C5, C6 *)

NoRepeat(s) == \A i, j \in 1..Len(s) : i # j => s[i] # s[j]

\* Within one assembly no path is analysed twice, and none is twice in the file list
C5_AtMostOnce == NoRepeat(asm.analysed) /\ NoRepeat(asm.files)

\* C5: for every import graph, with self-imports and import cycles, also while
\* documents change, an assembly that has started (analyze_at or analyze_files)
\* comes to its end, and within it each path is analysed and added to the file list
\* at most once.
C5_CycleSafety ==
    /\ []C5_AtMostOnce
    /\ (asm.phase = "collect") ~> (asm.phase = "done")

\* An assembly that ended after walking a.gni -> b.gni -> a.gni, b.gni importing
\* itself too
C5_Witness ==
    /\ asm.phase = "done"
    /\ asm.start = PathA
    /\ PathB \in asm.visited
    /\ PathA \in {Children(Cache[PathB])[i] : i \in 1..Len(Children(Cache[PathB]))}
    /\ PathB \in {Children(Cache[PathB])[i] : i \in 1..Len(Children(Cache[PathB]))}

\* The files reachable through the imports of the starting file, and the
\* build configuration with the files it reaches
ReachableFrom(start) ==
    Reach({workspaces[Root].context.build_config}
             \cup {Children(Cache[start])[i] : i \in 1..Len(Children(Cache[start]))},
          {})

\* C6: the environment analyze_at built holds exactly the exported variable and
\* template names of every file reachable through imports and of the build
\* configuration's closure, together with the locals of the starting file at pos;
\* every name the locals define maps to the local definition; and when the imports
\* lead back to the starting file (a.gni imports b.gni imports a.gni), the names the
\* starting file exports are among them.
C6_EnvironmentIsUnion ==
    (asm.phase = "done" /\ asm.mode = "at") =>
        LET reached == ReachableFrom(asm.start)
            document == Cache[asm.start].document
            variables == LocalsOf[document.data, document.path, asm.pos].variables
            templates == LocalsOf[document.data, document.path, asm.pos].templates
        IN /\ DOMAIN asm.env.variables =
                 UNION {DOMAIN Cache[p].exports.variables : p \in reached}
                    \cup DOMAIN variables
           /\ DOMAIN asm.env.templates =
                 UNION {DOMAIN Cache[p].exports.templates : p \in reached}
                    \cup DOMAIN templates
           /\ \A n \in DOMAIN variables : asm.env.variables[n] = variables[n]
           /\ \A n \in DOMAIN templates : asm.env.templates[n] = templates[n]

----------------------------------------------------------------------------
(* The registry: C7 *)

\* C7: after a successful workspace_for the analyzer registered for the root has
\* the .gn version now stored, the build configuration the stored .gn names, and
\* a cache without files built under an older context.
C7_ReloadOnDotGnChange ==
    (last.op \in {"workspace_for", "analyze_file"} /\ last.ok)
        => LET context == workspaces[Root].context
           IN /\ context.dot_gn_version = read_version(DotGnPath)
              /\ context.build_config = evaluate_dot_gn(Root, read(DotGnPath).data)

----------------------------------------------------------------------------
(* Background indexing and its barrier: C8, C9, C10 *)

TasksOf(root) == {k \in 1..Len(idx.tasks) : idx.tasks[k].root = root}

\* C8: in sequential and in parallel mode, when the barrier of a workspace reads
\* done, analyze_file has returned for every file the scan selected: each of them
\* has an entry in the workspace cache, and no task indexing the workspace is still
\* running.
C8_BarrierAfterAnalyses ==
    \A root \in DOMAIN indexed.map :
       AsyncSignal_done(indexed.signals[indexed.map[root]]) =>
          /\ \A i \in 1..Len(find_gn_in_workspace_for_scan(root)) :
                find_gn_in_workspace_for_scan(root)[i] \in DOMAIN Cache
          /\ \A k \in TasksOf(root) :
                idx.tasks[k].todo = << >> /\ idx.tasks[k].running = {}

\* C11: a references request and a workspace-symbol request read the cached files
\* of the workspace only after its barrier is done, and what they read is the
\* fully indexed cache: every file the scan selects is among the files read.
C11_RequestsReadIndexedCache ==
    \A r \in Requests :
       idx.requests[r].pc = "returned" =>
          /\ AsyncSignal_done(indexed.signals[indexed.map[idx.requests[r].root]])
          /\ \A i \in 1..Len(find_gn_in_workspace_for_scan(idx.requests[r].root)) :
                find_gn_in_workspace_for_scan(idx.requests[r].root)[i]
                   \in idx.requests[r].files

C9_Always ==
    /\ AsyncSignal_done(sig.signal) <=> Len(sig.returns) > 0
    /\ \A i \in 1..Len(sig.returns) : sig.returns[i].result <=> i = 1
    /\ sig.read.value <=> sig.read.sets > 0
    /\ \A w \in Waiters : sig.waits[w] = "returned" => AsyncSignal_done(sig.signal)

C9_Step ==
    /\ AsyncSignal_done(sig.signal) => AsyncSignal_done(sig.signal')
    /\ \A w \in Waiters :
          (sig.waits[w] = "idle" /\ sig'.waits[w] # "idle" /\ AsyncSignal_done(sig.signal))
             => sig'.waits[w] = "returned"

\* C9: an AsyncSignal starts not done, is done from the first set() on and in
\* every later state; of all the set() calls made through it and its clones only
\* the first returns true; done() returns true iff a set() has happened; wait()
\* returns only after a set() has happened, and at once when the signal is done.
C9_OneShot ==
    /\ ~AsyncSignal_done(sig.signal)
    /\ []C9_Always
    /\ [][C9_Step]_vars

\* Two handles have called set(), done() has read true, and a wait() has
\* returned
C9_Witness ==
    /\ Len(sig.returns) >= 2
    /\ sig.returns[1].by # sig.returns[2].by
    /\ sig.read.value
    /\ \E w \in Waiters : sig.waits[w] = "returned"

C10_Always ==
    /\ Len(indexed.signals) = Len(idx.tasks)
    /\ \A root \in {Root} : Cardinality(TasksOf(root)) <= 1
    /\ Len(indexed.signals) <= Cardinality(DOMAIN indexed.map)

C10_Step ==
    \A root \in DOMAIN indexed.map :
       /\ root \in DOMAIN indexed'.map
       /\ indexed'.map[root] = indexed.map[root]
       /\ Len(indexed'.signals) = Len(indexed.signals)
       /\ Len(idx'.tasks) = Len(idx.tasks)

\* C10: under any interleaving of did_open notifications, concurrent ones for
\* files of one workspace included, at most one indexing task is spawned and at
\* most one barrier created per workspace root; a did_open for a root that has an
\* entry spawns nothing and leaves the entry's barrier in place.
C10_IndexedOnce ==
    /\ []C10_Always
    /\ [][C10_Step]_vars

\* Two did_open notifications for different files have both gone through
\* maybe_index_workspace_for, and one task exists
C10_Witness ==
    /\ \A p \in Procs : idx.opens[p].pc \in {"indexed", "opened"}
    /\ \E p, q \in Procs : idx.opens[p].path # idx.opens[q].path
    /\ Len(idx.tasks) = 1

----------------------------------------------------------------------------
(* Exports and locals: C12 *)

BeginsWithUnderscore(name) == Len(name) > 0 /\ name[1] = "_"

\* The names assigned at the top level of a document (the bodies of conditions,
\* declare_args and foreach included) that begin with an underscore
PrivateAssignments(data) ==
    LET statements == AnalyzedTopLevelStatements(analyze_block(parse(data)))
    IN {statements[i].ident : i \in {j \in 1..Len(statements) :
                                        /\ statements[j].kind = "Assignment"
                                        /\ BeginsWithUnderscore(statements[j].ident)}}

\* C12: no key of the exported variables or templates of a file begins with an
\* underscore, while the locals of the file at a position hold the
\* underscore-prefixed names it assigns; so an environment holds no underscore name
\* defined by an imported file, and holds the underscore names of the starting file.
C12_ExportFilter ==
    /\ \A p \in DOMAIN Cache :
          /\ \A n \in DOMAIN Cache[p].exports.variables : ~BeginsWithUnderscore(n)
          /\ \A n \in DOMAIN Cache[p].exports.templates : ~BeginsWithUnderscore(n)
          /\ \A pos \in Positions :
                PrivateAssignments(Cache[p].document.data) \subseteq
                   DOMAIN LocalsOf[Cache[p].document.data, p, pos].variables
    /\ (asm.phase = "done" /\ asm.mode = "files") =>
          \A n \in DOMAIN asm.env.variables \cup DOMAIN asm.env.templates :
             ~BeginsWithUnderscore(n)
    /\ (asm.phase = "done" /\ asm.mode = "at") =>
          /\ \A n \in DOMAIN asm.env.variables :
                BeginsWithUnderscore(n) =>
                   \A i \in 1..Len(asm.env.variables[n].assignments) :
                      asm.env.variables[n].assignments[i].document = asm.start
          /\ \A n \in DOMAIN asm.env.templates :
                BeginsWithUnderscore(n) => asm.env.templates[n].document = asm.start
          /\ PrivateAssignments(Cache[asm.start].document.data)
                \subseteq DOMAIN asm.env.variables

\* analyze_at on a.gni has ended: the environment holds _p of a.gni and not _q,
\* which the build configuration it walked assigns
C12_Witness ==
    /\ asm.phase = "done"
    /\ asm.mode = "at"
    /\ asm.start = PathA
    /\ PathC \in asm.visited
    /\ <<"_", "q">> \in PrivateAssignments(Cache[PathC].document.data)
    /\ <<"_", "p">> \in DOMAIN asm.env.variables
    /\ <<"_", "q">> \notin DOMAIN asm.env.variables

----------------------------------------------------------------------------
(* declare_args: C13, C14 *)

\* The position lies in the body of a declare_args call of the document
InsideDeclareArgs(at) ==
    \E k \in 1..Len(doc.statements) :
       /\ doc.statements[k].kind = "Call"
       /\ doc.statements[k].fn = DECLARE_ARGS
       /\ doc.statements[k].hasBlock
       /\ doc.statements[k].bs < at
       /\ at < doc.statements[k].e

\* The statements of the document's scope that assign the name: assignments, and
\* forward_variables_from calls naming it once in their list
AssignmentsTo(name) ==
    LET statements == top_level_statements(doc.statements)
    IN Cardinality({j \in 1..Len(statements) :
                      \/ /\ statements[j].kind = "Assignment"
                         /\ statements[j].ident = name
                      \/ /\ statements[j].kind = "Call"
                         /\ statements[j].fn = FORWARD_VARIABLES_FROM
                         /\ \E i \in 1..Len(ForwardedStrings(statements[j])) :
                               ForwardedStrings(statements[j])[i].raw = name})

\* C13: for every exported name of a file, when at least one of its assignments
\* lies inside a declare_args block the exported Variable has is_args = TRUE,
\* whatever the order of the assignments inside and outside, and its assignments
\* list holds one record for each assignment.
C13_ArgsWhateverTheOrder ==
    doc.analysed =>
       \A n \in DOMAIN doc.exports.variables :
          LET variable == doc.exports.variables[n]
          IN /\ (\E i \in 1..Len(variable.assignments) :
                    InsideDeclareArgs(variable.assignments[i].at))
                   => variable.is_args
             /\ Len(variable.assignments) = AssignmentsTo(n)

\* The variables the analysis of the document returned: exported ones and locals
AnalysedVariables ==
    {doc.exports.variables[n] : n \in DOMAIN doc.exports.variables}
       \cup {doc.locals[n] : n \in DOMAIN doc.locals}

\* C14 as stated: is_args of a variable is true iff every one of its assignments
\* was recorded while the declare-args stack was non-empty.
C14_ArgsIffEveryAssignment ==
    doc.analysed =>
       \A variable \in AnalysedVariables :
          variable.is_args <=>
             \A i \in 1..Len(variable.assignments) :
                InsideDeclareArgs(variable.assignments[i].at)

\* C14, amended: is_args of a variable is true iff the first of its assignments
\* was recorded while the declare-args stack was non-empty; later assignments do
\* not change it.
C14_ArgsIffFirstAssignment ==
    doc.analysed =>
       \A variable \in AnalysedVariables :
          /\ variable.assignments # << >>
          /\ variable.is_args <=> InsideDeclareArgs(variable.assignments[1].at)

\* An exported variable assigned in declare_args first and outside of it later
C14_Witness ==
    /\ doc.analysed
    /\ \E n \in DOMAIN doc.exports.variables :
          LET variable == doc.exports.variables[n]
          IN /\ Len(variable.assignments) >= 2
             /\ InsideDeclareArgs(variable.assignments[1].at)
             /\ ~InsideDeclareArgs(variable.assignments[2].at)
             /\ variable.is_args

----------------------------------------------------------------------------
(* foreach: C15 *)

\* The foreach statements of the document
ForeachStatements ==
    {k \in 1..Len(doc.statements) : Classify(doc.statements[k]) = "Foreach"}

InsideBody(k, pos) == doc.statements[k].bs < pos /\ pos < doc.statements[k].e

OutsideStatement(k, pos) == pos < doc.statements[k].s \/ doc.statements[k].e < pos

\* C15 as stated: for foreach(i, ..) { x = i }, the locals at a position inside
\* the body hold i and x, and the locals at a position outside the foreach
\* statement hold neither.
C15_ForeachLocalsScoped ==
    (doc.analysed /\ ForeachStatements # {}) =>
       /\ (\E k \in ForeachStatements : InsideBody(k, doc.pos))
             => {<<"i">>, <<"x">>} \subseteq DOMAIN doc.locals
       /\ (\A k \in ForeachStatements : OutsideStatement(k, doc.pos))
             => {<<"i">>, <<"x">>} \cap DOMAIN doc.locals = {}

\* C15, amended: for a foreach among the top-level statements of a block, the
\* locals of the block at every position, inside the body or outside the
\* statement, hold i and x: the body of a foreach is inlined into the scope
\* around it.
C15_ForeachLocalsInlined ==
    (doc.analysed /\ ForeachStatements # {}) =>
       /\ {<<"i">>, <<"x">>} \subseteq DOMAIN doc.locals
       /\ \A n \in {<<"i">>, <<"x">>} :
             Len(doc.locals[n].assignments) = Cardinality(ForeachStatements)

\* Locals were asked at a position after the foreach statement, and hold i and x
C15_Witness ==
    /\ doc.analysed
    /\ ForeachStatements # {}
    /\ \A k \in ForeachStatements : doc.statements[k].e < doc.pos
    /\ {<<"i">>, <<"x">>} \subseteq DOMAIN doc.locals

----------------------------------------------------------------------------
(* The undefined-identifier pass: C16 *)

\* The positions of the forward_variables_from calls of the document's scope
\* whose include list is not a list of simple string literals
UntrackableForwards ==
    LET statements == AnalyzedTopLevelStatements(analyze_block(doc.statements))
    IN {statements[j].s : j \in {i \in 1..Len(statements) :
                                    /\ Classify(statements[i]) = "ForwardVariablesFrom"
                                    /\ as_simple_string_list(statements[i].args[2]) = None}}

FirstUntrackable == CHOOSE f \in UntrackableForwards : \A g \in UntrackableForwards : f <= g

\* The top-level statements written before the one that holds position f
StatementsBefore(f) == SubSeq(doc.statements, 1, f \div 20)

\* The bodies of targets that hold such a forward_variables_from: the span after it
UntrackableInBodies ==
    {[from |-> doc.statements[k].block[1].e, to |-> doc.statements[k].e] :
        k \in {i \in 1..Len(doc.statements) :
                  /\ Classify(doc.statements[i]) = "Target"
                  /\ Len(doc.statements[i].block) >= 1
                  /\ Classify(doc.statements[i].block[1]) = "ForwardVariablesFrom"
                  /\ as_simple_string_list(doc.statements[i].block[1].args[2]) = None}}

\* C16: once a forward_variables_from whose include list is not a list of simple
\* string literals has been processed, the tracker stays untrackable to the end of
\* that scope, whatever is inserted, extended or imported later; no undefined
\* diagnostic is emitted for a later statement of the scope or for its subscopes;
\* and the diagnostics of the statements before it are those the document gets
\* without it and what follows it.
C16_UntrackableToEndOfScope ==
    doc.analysed =>
       /\ UntrackableForwards # {} =>
             /\ doc.tracker = Untrackable
             /\ \A i \in 1..Len(doc.diagnostics) :
                   doc.diagnostics[i].at <= FirstUntrackable
             /\ SelectSeq(doc.diagnostics, LAMBDA d : d.at < FirstUntrackable)
                   = collect_undefined_identifiers(
                        StatementsBefore(FirstUntrackable), WrittenDocument,
                        workspace_for(PathA).workspaces[Root], 1).diagnostics
       /\ \A span \in UntrackableInBodies :
             \A i \in 1..Len(doc.diagnostics) :
                ~(span.from < doc.diagnostics[i].at /\ doc.diagnostics[i].at < span.to)

\* A statement before the forward_variables_from got its diagnostic, and a
\* statement after it reads an undefined name and got none
C16_Witness ==
    /\ doc.analysed
    /\ UntrackableForwards # {}
    /\ \E i \in 1..Len(doc.diagnostics) : doc.diagnostics[i].at < FirstUntrackable
    /\ \E k \in 1..Len(doc.statements) :
          /\ doc.statements[k].s > FirstUntrackable
          /\ doc.statements[k].kind = "Assignment"
          /\ doc.statements[k].args[1] = Ident(<<"u">>)
    /\ \E k \in 1..Len(doc.statements) :
          /\ doc.statements[k].s > FirstUntrackable
          /\ Classify(doc.statements[k]) \in {"Import", "Assignment"}
    /\ \A i \in 1..Len(doc.diagnostics) : doc.diagnostics[i].at <= FirstUntrackable

----------------------------------------------------------------------------
(* Import insertion: C17 *)

\* The paths of a set in lexicographic order
RECURSIVE SortedPaths(_)
SortedPaths(paths) ==
    IF paths = {} THEN << >>
    ELSE LET least == CHOOSE p \in paths : \A q \in paths \ {p} : str_gt(q, p)
         IN <<least>> \o SortedPaths(paths \ {least})

\* One block of imports, a newline after each, and a blank line after the block
RECURSIVE ImportBlock(_)
ImportBlock(paths) ==
    IF paths = << >> THEN <<Newline>>
    ELSE <<ImportToken(Head(paths)), Newline>> \o ImportBlock(Tail(paths))

\* C17: after the edits computed for K distinct import paths were applied one after
\* another to a file that was empty, in any order, the file is one contiguous block
\* of the K import statements in lexicographic order of path, a single newline
\* between two of them, followed by a blank line.
C17_ImportsSorted ==
    buf.inserted # << >> =>
       buf.text = ImportBlock(SortedPaths({buf.inserted[i] : i \in 1..Len(buf.inserted)}))

----------------------------------------------------------------------------
(* Target references: C18, C19 *)

\* The locations of the reply
Locations == {refs.reply[i] : i \in 1..Len(refs.reply)}

LocationOf(link) == [file |-> link.file, at |-> link.at]

LinksToFile == {refs.links[i] : i \in 1..Len(refs.links)}

\* C18 as stated: target_references(F, N) returns exactly the locations of the
\* Target links to F whose name equals N; a Target link whose name has N as a
\* proper prefix is not returned, and no File link is.
C18_ReferencesEqualName ==
    refs.asked # None =>
       Locations = {LocationOf(link) : link \in
                       {l \in LinksToFile : l.kind = "Target" /\ l.name = refs.asked[1]}}

\* C18, amended: target_references(F, N) returns exactly the locations of the
\* Target links to F whose name starts with N and starts with no target defined in
\* F that is longer than N and starts with N; a Target link whose name has N as a
\* proper prefix and matches no such longer target is returned; no File link is.
C18_ReferencesStartWithName ==
    refs.asked # None =>
       /\ Locations = {LocationOf(link) : link \in
                          {l \in LinksToFile :
                              /\ l.kind = "Target"
                              /\ IsPrefix(refs.asked[1], l.name)
                              /\ ~\E longer \in refs.targets :
                                     /\ Len(longer) > Len(refs.asked[1])
                                     /\ IsPrefix(refs.asked[1], longer)
                                     /\ IsPrefix(longer, l.name)}}
       /\ Len(refs.reply) = Cardinality(Locations)

\* references on foo returned a link named foobar, while the file defines no
\* target foobar, and did not return a File link
C18_Witness ==
    /\ refs.asked = Some(<<"foo">>)
    /\ <<"foo", "bar">> \notin refs.targets
    /\ \E link \in LinksToFile :
          link.kind = "Target" /\ link.name = <<"foo", "bar">>
             /\ LocationOf(link) \in Locations
    /\ \E link \in LinksToFile : link.kind = "File" /\ LocationOf(link) \notin Locations

\* C19: when F defines T and T', T a proper prefix of T', target_references(F, T)
\* holds no location of a link whose name is T' or starts with T', whatever the
\* link indexes of the cached files hold.
C19_LongerTargetExcluded ==
    refs.asked # None =>
       \A longer \in refs.targets :
          (Len(longer) > Len(refs.asked[1]) /\ IsPrefix(refs.asked[1], longer)) =>
             \A link \in LinksToFile :
                (link.kind = "Target" /\ IsPrefix(longer, link.name))
                   => LocationOf(link) \notin Locations

\* F defines foo and foo_tests; links to foo, to foo_tests and to foo_tests_x
\* exist; references on foo returned the first only
C19_Witness ==
    /\ refs.asked = Some(<<"foo">>)
    /\ <<"foo", "_tests">> \in refs.targets
    /\ \E link \in LinksToFile :
          link.kind = "Target" /\ link.name = <<"foo">> /\ LocationOf(link) \in Locations
    /\ \E link \in LinksToFile :
          /\ link.kind = "Target"
          /\ link.name \in {<<"foo", "_tests">>, <<"foo", "_tests", "_x">>}
          /\ LocationOf(link) \notin Locations

----------------------------------------------------------------------------
(* The import quick fix: C20 *)

\* The non-external cached files that export a variable of the name asked about
Exporters ==
    {path \in DOMAIN Cache :
        ~Cache[path].external /\ act.asked[1] \in DOMAIN Cache[path].exports.variables}

\* The import paths of the candidates of an action
CandidateImports(action) == {action.candidates[i].import : i \in 1..Len(action.candidates)}

\* C20: for a diagnostic with code `undefined` naming N, the provider emits no
\* action when no non-external cached file exports a variable N; exactly one quick
\* fix with an edit and no command when exactly one does; and when k >= 2 do,
\* exactly one action with the command gn.chooseImportCandidates and no edit, whose
\* candidate list has k entries with pairwise distinct import paths, each with the
\* edit that inserts its own import.
C20_ImportActions ==
    (act.asked # None /\ act.code = "undefined") =>
       LET k == Cardinality(Exporters)
       IN /\ k = 0 => act.reply = << >>
          /\ k = 1 => /\ Len(act.reply) = 1
                      /\ act.reply[1].kind = "quickfix"
                      /\ act.reply[1].edit # None
                      /\ act.reply[1].command = None
                      /\ act.reply[1].edit[1].import
                            \in {format_path(path, Root) : path \in Exporters}
          /\ k >= 2 => /\ Len(act.reply) = 1
                       /\ act.reply[1].edit = None
                       /\ act.reply[1].command = Some("gn.chooseImportCandidates")
                       /\ Len(act.reply[1].candidates) = k
                       /\ Cardinality(CandidateImports(act.reply[1])) = k
                       /\ CandidateImports(act.reply[1])
                             = {format_path(path, Root) : path \in Exporters}
                       /\ \A i \in 1..k :
                             act.reply[1].candidates[i].edit.import
                                = act.reply[1].candidates[i].import

\* Two cached files export the name: one action, a chooser over two candidates
\* with the import paths of the two files and edits at different texts
C20_Witness ==
    /\ act.asked # None
    /\ act.code = "undefined"
    /\ Cardinality(Exporters) = 2
    /\ Len(act.reply) = 1
    /\ Len(act.reply[1].candidates) = 2
    /\ act.reply[1].candidates[1].edit # act.reply[1].candidates[2].edit

----------------------------------------------------------------------------
(* Indexing twice: C21 *)

\* Every run called so far has returned and the analyses it spawned have run
RunsComplete(n) ==
    /\ Len(idx.tasks) = n
    /\ \A k \in 1..n : idx.tasks[k].state = "finished" /\ idx.tasks[k].running = {}

\* A cache by structural equality: the time of the last check of a key left out
Structure(cache) == [path \in DOMAIN cache |-> WithoutRequestTime(cache[path])]

\* The cache one run leaves when it starts from the cache `cache`
RECURSIVE IndexOnce(_, _, _)
IndexOnce(cache, todo, request_time) ==
    IF todo = << >> THEN cache
    ELSE IndexOnce(analyze_file([context |-> workspaces[Root].context, cache |-> cache],
                                Head(todo), request_time).cache,
                   Tail(todo), request_time)

CacheBefore ==
    IF Root \in DOMAIN idx.before[1] THEN idx.before[1][Root].cache ELSE EmptyMap

AfterOneRun ==
    IndexOnce(CacheBefore, find_gn_in_workspace_for_scan(Root), idx.tasks[1].time)

\* A cached file of before the first run that the store has since left behind
StaleBefore ==
    {path \in DOMAIN CacheBefore : read_version(path) # CacheBefore[path].key.version}

----------------------------------------------------------------------------
(* The document store: C22 *)

\* C22: every load_to_memory leaves the path's stored in-memory revision strictly
\* greater than the revision stored before it, so two different byte contents of
\* one path are never stored under the same or a lower revision.
C22_RevisionsIncrease ==
    [][\A path \in Paths :
          (memory_docs'[path].present /\ memory_docs'[path] # memory_docs[path]
              /\ memory_docs[path].present)
             => memory_docs'[path].revision > memory_docs[path].revision]_vars

----------------------------------------------------------------------------
(* Failed reads *)

Unreadable(path) == ~ memory_docs[path].present /\ ~ disk[path].exists

\* C23: when a path is neither loaded in memory nor readable on the disk, read and
\* read_version return an error, and analyze_file of the path returns the failure
\* to its caller and caches no file built from empty bytes.
C23_ReadFailureSurfaces ==
    \A path \in Paths :
       (Unreadable(path) /\ last.path = path)
          => /\ last.op = "read" => ~ last.ok
             /\ last.op \in {"analyze_file", "analyze_file panicked"}
                   => /\ last.op = "analyze_file"
                      /\ ~ last.ok
                      /\ ~ (path \in DOMAIN Cache
                              /\ Cache[path].document.version = IoError)

\* The storage half of C23 on its own
C23_StorageReportsError ==
    \A path \in Paths :
       (Unreadable(path) /\ last.path = path /\ last.op = "read") => ~ last.ok

C23_Witness ==
    \E path \in Paths :
       /\ Unreadable(path)
       /\ last.path = path
       /\ last.op = "analyze_file"
       /\ last.ok
       /\ path \in DOMAIN Cache
       /\ Cache[path].document.version = IoError
       /\ Cache[path].document.data = 0

----------------------------------------------------------------------------
(* Indexing when analyze_file fails *)

Range(seq) == {seq[i] : i \in 1..Len(seq)}

IndexStarted == Len(idx.tasks) >= 1

\* The index task has returned, its barrier is set, and every scanned file was
\* given to analyze_file
IndexComplete ==
    /\ IndexStarted
    /\ idx.tasks[1].state = "finished"
    /\ AsyncSignal_wait_ready(indexed.signals[idx.tasks[1].barrier])
    /\ idx.tasks[1].tried = Range(find_gn_in_workspace_for_scan(idx.tasks[1].root))

\* C24: when analyze_file fails for some of the scanned files, indexing still
\* gives every other scanned file to analyze_file, returns, and sets the barrier
\* of the workspace; every request waiting on the barrier resumes.
C24_IndexingSurvivesFailures ==
    /\ IndexStarted ~> IndexComplete
    /\ \A r \in Requests : (idx.requests[r].pc = "waiting") ~> (idx.requests[r].pc = "returned")

C24_Witness ==
    /\ IndexComplete
    /\ idx.tasks[1].failed # {}
    /\ idx.tasks[1].tried \ idx.tasks[1].failed # {}
    /\ \E path \in idx.tasks[1].tried \ idx.tasks[1].failed :
          path \in DOMAIN workspaces[idx.tasks[1].root].cache
    /\ \E r \in Requests : idx.requests[r].pc = "returned"

----------------------------------------------------------------------------
(* The two iterators of toplevel.rs *)

\* The statements of the syntax tree that have an analysed statement: every
\* statement but those that failed to parse
WithoutErrors(statements) == SelectSeq(statements, LAMBDA statement : statement.kind # "Error")

\* C25: over the same block the iterator of the syntax tree and the iterator of
\* the analysed tree yield the same statements in the same order; they inline the
\* bodies of the same conditions, declare_args calls and foreach calls.
C25_IteratorsAgree ==
    doc.analysed
       => AnalyzedTopLevelStatements(analyze_block(doc.statements))
             = WithoutErrors(top_level_statements(doc.statements))

\* The iterators agree on a document in which every foreach call with a block has
\* two arguments, the first an identifier
C25_AgreeOnWellFormedForeach ==
    (doc.analysed
       /\ \A i \in 1..Len(doc.statements) :
             (doc.statements[i].kind = "Call" /\ doc.statements[i].fn = FOREACH
                 /\ doc.statements[i].hasBlock)
                => Classify(doc.statements[i]) = "Foreach")
       => AnalyzedTopLevelStatements(analyze_block(doc.statements))
             = WithoutErrors(top_level_statements(doc.statements))

----------------------------------------------------------------------------
(* Locals at a position *)

\* The names a block defines at its top level, by the first passes
DefinedVariables(block) ==
    LocalsFold([stack |-> << >>, variables |-> EmptyMap],
               AnalyzedTopLevelStatements(analyze_block(block)), WrittenDocument).variables

DefinedTemplates(block) ==
    TemplatesFold(EmptyMap, AnalyzedTopLevelStatements(analyze_block(block)), WrittenDocument)

\* The subscopes of the statements of a block, whatever the position
SubscopesOf(block) ==
    LET statements == AnalyzedTopLevelStatements(analyze_block(block))
        scopes == ConcatAll([i \in 1..Len(statements) |-> subscopes(statements[i])])
    IN {scopes[i] : i \in 1..Len(scopes)}

\* The block itself and, level by level, the subscopes whose span holds pos
\* strictly between its start and its end
RECURSIVE VisibleScopes(_, _, _)
VisibleScopes(block, pos, depth) ==
    {[block |-> block, depth |-> depth]}
       \cup UNION {VisibleScopes(scope.block, pos, depth + 1) :
                      scope \in {x \in SubscopesOf(block) : x.s < pos /\ pos < x.e}}

Innermost(scopes) == CHOOSE v \in scopes : \A w \in scopes : w.depth <= v.depth

\* The names of the visible scopes, each with the definition of the innermost
\* visible scope that defines it
VisibleDefinitions(Defined(_)) ==
    LET visible == VisibleScopes(doc.statements, doc.pos, 0)
    IN [name \in UNION {DOMAIN Defined(v.block) : v \in visible} |->
          Defined(Innermost({v \in visible : name \in DOMAIN Defined(v.block)}).block)[name]]

\* C26: local_variables_at(pos) and local_templates_at(pos) hold the names defined
\* at the top level of a subscope iff pos lies strictly between the start and the
\* end of its span, along the whole chain of enclosing subscopes, and a name
\* defined in an inner and an outer scope has the inner definition.
C26_LocalsFollowScopes ==
    doc.analysed
       => /\ doc.locals = VisibleDefinitions(DefinedVariables)
          /\ doc.templates = VisibleDefinitions(DefinedTemplates)

\* pos is in the body of a template in the body of a target; a is defined there
\* and at the top level of the document
C26_Witness ==
    /\ doc.analysed
    /\ \E v \in VisibleScopes(doc.statements, doc.pos, 0) :
          /\ v.depth = 2
          /\ <<"a">> \in DOMAIN DefinedVariables(v.block)
          /\ doc.locals[<<"a">>] = DefinedVariables(v.block)[<<"a">>]
    /\ <<"a">> \in DOMAIN DefinedVariables(doc.statements)
    /\ <<"t">> \in DOMAIN doc.templates

\* pos is the first or the last position of a body whose names are not among
\* the locals
C26_AtBoundary ==
    /\ doc.analysed
    /\ \E scope \in SubscopesOf(doc.statements) :
          /\ doc.pos \in {scope.s, scope.e}
          /\ DefinedVariables(scope.block) # EmptyMap
          /\ doc.locals = EmptyMap

----------------------------------------------------------------------------
(* The undefined-identifier pass *)

\* Every statement of the document, with the chain of subscopes it lies in
RECURSIVE StatementsIn(_, _)
StatementsIn(block, chain) ==
    LET statements == AnalyzedTopLevelStatements(analyze_block(block))
    IN UNION {{[st |-> statements[i], scope |-> chain]}
                 \cup UNION {StatementsIn(sub.block, Append(chain, <<sub.s, sub.e>>)) :
                                sub \in {subscopes(statements[i])[j] :
                                            j \in 1..Len(subscopes(statements[i]))}} :
              i \in 1..Len(statements)}

Within(x, sub) == sub.s <= x.st.s /\ x.st.e <= sub.e

\* y is an earlier statement of the scope of x or of a scope enclosing it, and x
\* is not in a subscope of y
EarlierInScope(y, x) ==
    /\ IsPrefix(y.scope, x.scope)
    /\ y.st.s < x.st.s
    /\ \A j \in 1..Len(subscopes(y.st)) : ~Within(x, subscopes(y.st)[j])

\* The tracker of a document before its first statement
AnalyzerOfDocument == workspace_for(WrittenDocument.path).workspaces[Root]

BaseNames ==
    tracker_extend(EnvironmentTracker_new,
                   DOMAIN analyze_files(AnalyzerOfDocument,
                                        AnalyzerOfDocument.context.build_config, 1).variables).env

\* The names a statement defines
DefinedBy(statement) ==
    UpdateTracker(statement, [ok |-> TRUE, env |-> {}], WrittenDocument,
                  AnalyzerOfDocument, 1).env

DefinedBefore(x) ==
    BaseNames \cup UNION {DefinedBy(y.st) :
                            y \in {z \in StatementsIn(doc.statements, << >>) :
                                      EarlierInScope(z, x)}}

\* Every identifier in the expressions of a statement
IdentifiersIn(expr) ==
    CASE expr.t = "identifier" -> <<expr.raw>>
      [] expr.t \in {"list", "call"} ->
           LET names == SelectSeq(expr.items, LAMBDA e : e.t = "identifier")
           IN (IF expr.t = "call" THEN <<expr.raw>> ELSE << >>)
                 \o [i \in 1..Len(names) |-> names[i].raw]
      [] OTHER -> << >>

UsedIn(statement, Identifiers(_)) ==
    ConcatAll([i \in 1..Len(CheckedExpressions(statement)) |->
                 Identifiers(CheckedExpressions(statement)[i])])

Count(seq, x) == Cardinality({i \in 1..Len(seq) : seq[i] = x})

\* The diagnostics are, use by use, the uses of the names not defined before
DiagnosticsAre(Identifiers(_)) ==
    /\ \A x \in StatementsIn(doc.statements, << >>) :
          \A name \in Range(UsedIn(x.st, Identifiers)) :
             Count(doc.diagnostics, [name |-> name, at |-> x.st.s])
                = IF name \in DefinedBefore(x) THEN 0
                  ELSE Count(UsedIn(x.st, Identifiers), name)
    /\ \A i \in 1..Len(doc.diagnostics) :
          \E x \in StatementsIn(doc.statements, << >>) :
             /\ doc.diagnostics[i].at = x.st.s
             /\ doc.diagnostics[i].name \in Range(UsedIn(x.st, Identifiers))

\* C27: while the tracker is trackable, an identifier used in the expressions of
\* a statement yields exactly one diagnostic iff it is no builtin, no export of
\* the build configuration's environment and not defined by an earlier statement
\* of the current or an enclosing scope; the definition of a statement itself is
\* added after its expressions and subscopes were checked.
C27_UndefinedIffNotDefinedBefore ==
    (doc.analysed /\ doc.tracker.ok) => DiagnosticsAre(IdentifiersIn)

\* C27, with the arguments of defined() left out of the identifiers used
C27_UndefinedIffNotDefinedBeforeButInDefined ==
    (doc.analysed /\ doc.tracker.ok) => DiagnosticsAre(IdentifiersOf)

\* c = a; a = defined(a); a = a: the use of a before any definition has the one
\* diagnostic, the use inside defined() has none, and the use after the
\* definition has none
C27_Witness ==
    /\ doc.analysed
    /\ doc.tracker.ok
    /\ doc.statements = <<StatementOf("c = a", 0), StatementOf("a = defined(a)", 20),
                          StatementOf("a = a", 40)>>
    /\ doc.diagnostics = <<[name |-> <<"a">>, at |-> 0]>>

\* The names of the statements of the document itself, not of a subscope
TopLevelNames ==
    BaseNames \cup UNION {DefinedBy(y.st) :
                            y \in {z \in StatementsIn(doc.statements, << >>) :
                                      z.scope = << >>}}

\* The uses of a name that a subscope before them defines and no statement of
\* their own or an enclosing scope
UsesAfterSubscope ==
    {u \in {[x |-> x, name |-> name] :
               x \in StatementsIn(doc.statements, << >>), name \in {<<"a">>, <<"c">>, <<"y">>}} :
        /\ u.name \in Range(UsedIn(u.x.st, IdentifiersOf))
        /\ u.name \notin DefinedBefore(u.x)
        /\ \E y \in StatementsIn(doc.statements, << >>) :
              /\ y.st.e < u.x.st.s
              /\ ~IsPrefix(y.scope, u.x.scope)
              /\ u.name \in DefinedBy(y.st)}

\* C28: the names defined in a subscope enter neither the tracker of the enclosing
\* scope nor that of a later subscope: after the walk the tracker of the document
\* holds the names of its own statements only, and a later use of a name that
\* only a subscope defined has an undefined diagnostic.
C28_SubscopeNamesStayInside ==
    (doc.analysed /\ doc.tracker.ok)
       => /\ doc.tracker.env = TopLevelNames
          /\ \A u \in UsesAfterSubscope :
                Count(doc.diagnostics, [name |-> u.name, at |-> u.x.st.s]) >= 1

\* a is defined in the body of a target and read later, at the top level and in
\* the body of another target
C28_Witness ==
    /\ doc.analysed
    /\ doc.tracker.ok
    /\ <<"a">> \notin doc.tracker.env
    /\ \E u, v \in UsesAfterSubscope :
          /\ u.name = <<"a">> /\ u.x.scope = << >>
          /\ v.name = <<"a">> /\ v.x.scope # << >>

----------------------------------------------------------------------------
(* analyzer/mod.rs: the locks of the Analyzer.  Analyzer.workspaces is a RwLock   *)
(* of a map from a root to an Arc<Mutex<WorkspaceAnalyzer>>; an Arc is a number;  *)
(* the storage is one Mutex.  A thread takes and drops one lock in a step.        *)

RegistryReadLock == [kind |-> "registry", mode |-> "read", id |-> 0]
RegistryWriteLock == [kind |-> "registry", mode |-> "write", id |-> 0]
WorkspaceMutex(id) == [kind |-> "workspace", mode |-> "", id |-> id]
StorageMutex == [kind |-> "storage", mode |-> "", id |-> 0]

Holds(t, lock) == \E i \in 1..Len(conc.threads[t].held) : conc.threads[t].held[i] = lock

\* lock(), read() and write() return at once
Available(lock) ==
    CASE lock = RegistryReadLock -> \A u \in Threads : ~Holds(u, RegistryWriteLock)
      [] lock = RegistryWriteLock ->
           \A u \in Threads : ~Holds(u, RegistryReadLock) /\ ~Holds(u, RegistryWriteLock)
      [] OTHER -> \A u \in Threads : ~Holds(u, lock)

Dropped(held, lock) == SelectSeq(held, LAMBDA l : l # lock)

\* workspace_for that keeps read_lock to the end of the function
end_of_read_block_keeping(held) == held

\* The block of workspace_for that holds read_lock ends: the guard is dropped
end_of_read_block(held) == Dropped(held, RegistryReadLock)

\* BTreeMap::insert: the entry of the root is replaced
or_insert_replacing(registry, root, analyzer) == MapInsert(registry, root, analyzer)

\* write_lock.entry(root).or_insert(analyzer)
or_insert(registry, root, analyzer) == OrInsert(registry, root, analyzer)

\* The operations that start with workspace_for
AnalyzerOperations == {"workspace_for", "analyze_file", "analyze_at", "undefined"}

\* A thread enters an operation of the Analyzer; analyze_file, analyze_at and
\* collect_undefined_identifiers all lock the analyzer that workspace_for returns
StartOperation(t, op, root) ==
    /\ conc.threads[t].pc = "idle"
    /\ conc.calls < MaxCalls
    /\ conc' = [conc EXCEPT !.threads[t] =
                              [IdleThread EXCEPT !.pc = "version", !.root = root,
                                                 !.op = IF op = "workspace_for"
                                                        THEN op ELSE "analyze"],
                            !.calls = @ + 1]

\* A thread enters load_to_memory or unload_from_memory of the .gn file of a root
StartStorageOperation(t, op, root) ==
    /\ conc.threads[t].pc = "idle"
    /\ conc.calls < MaxCalls
    /\ conc' = [conc EXCEPT !.threads[t] = [IdleThread EXCEPT !.pc = "store", !.op = op,
                                                             !.root = root],
                            !.calls = @ + 1]

\* storage.lock() of the caller of load_to_memory / unload_from_memory
StoreLock(t) ==
    /\ conc.threads[t].pc = "store"
    /\ Available(StorageMutex)
    /\ conc' = [conc EXCEPT !.threads[t].pc = "stored",
                            !.threads[t].held = Append(@, StorageMutex)]

\* The document is loaded or unloaded and the guard is dropped
StoreUnlock(t) ==
    /\ conc.threads[t].pc = "stored"
    /\ conc' = [conc EXCEPT
                  !.threads[t] = IdleThread,
                  !.dot_gn[conc.threads[t].root] =
                     IF conc.threads[t].op = "load_to_memory" THEN InMemory(1) ELSE OnDisk(1)]

\* workspace_for: self.storage.lock() for read_version
VersionLock(t) ==
    /\ conc.threads[t].pc = "version"
    /\ Available(StorageMutex)
    /\ conc' = [conc EXCEPT !.threads[t].pc = "versioned",
                            !.threads[t].held = Append(@, StorageMutex)]

\* workspace_for: dot_gn_version is read and the guard is dropped
VersionUnlock(t) ==
    /\ conc.threads[t].pc = "versioned"
    /\ conc' = [conc EXCEPT !.threads[t] =
                  [@ EXCEPT !.pc = "read", !.held = Dropped(@, StorageMutex),
                            !.version = conc.dot_gn[conc.threads[t].root]]]

\* workspace_for: self.workspaces.read(), and the lookup of the root
RegistryRead(t) ==
    /\ conc.threads[t].pc = "read"
    /\ Available(RegistryReadLock)
    /\ conc' = [conc EXCEPT !.threads[t].pc =
                              IF conc.threads[t].root \in DOMAIN conc.registry
                              THEN "entry" ELSE "miss",
                            !.threads[t].held = Append(@, RegistryReadLock)]

\* workspace_for: analyzer.lock() of the entry found, under read_lock
EntryLock(t) ==
    LET entry == conc.registry[conc.threads[t].root]
    IN /\ conc.threads[t].pc = "entry"
       /\ Available(WorkspaceMutex(entry.id))
       /\ conc' = [conc EXCEPT !.threads[t].pc = "compare",
                               !.threads[t].held = Append(@, WorkspaceMutex(entry.id))]

\* workspace_for: the versions are compared and the guard of the entry is
\* dropped; on equal versions the entry is returned and read_lock is dropped
EntryCompare(t) ==
    LET entry == conc.registry[conc.threads[t].root]
        held == Dropped(conc.threads[t].held, WorkspaceMutex(entry.id))
    IN /\ conc.threads[t].pc = "compare"
       /\ conc' = [conc EXCEPT !.threads[t] =
                     IF entry.dot_gn_version = conc.threads[t].version
                     THEN [@ EXCEPT !.pc = "return", !.got = entry.id,
                                    !.held = end_of_read_block(held)]
                     ELSE [@ EXCEPT !.pc = "miss", !.held = held]]

\* workspace_for: no entry is returned; the block ends and read_lock is dropped
RegistryReadUnlock(t) ==
    /\ conc.threads[t].pc = "miss"
    /\ conc' = [conc EXCEPT !.threads[t].pc = "evaluate",
                            !.threads[t].held = end_of_read_block(@)]

\* workspace_for: self.storage.lock() for the read of the .gn file
EvaluateLock(t) ==
    /\ conc.threads[t].pc = "evaluate"
    /\ Available(StorageMutex)
    /\ conc' = [conc EXCEPT !.threads[t].pc = "evaluated",
                            !.threads[t].held = Append(@, StorageMutex)]

\* workspace_for: evaluate_dot_gn has returned, the guard is dropped and a new
\* WorkspaceAnalyzer is made behind a new Arc
EvaluateUnlock(t) ==
    /\ conc.threads[t].pc = "evaluated"
    /\ conc' = [conc EXCEPT !.threads[t] =
                  [@ EXCEPT !.pc = "write", !.held = Dropped(@, StorageMutex),
                            !.built = conc.arcs + 1],
                            !.arcs = @ + 1]

\* workspace_for: evaluate_dot_gn has failed; the guard is dropped and the error
\* is returned
EvaluateFails(t) ==
    /\ conc.threads[t].pc = "evaluated"
    /\ conc' = [conc EXCEPT !.threads[t] = IdleThread]

\* workspace_for: self.workspaces.write()
RegistryWrite(t) ==
    /\ conc.threads[t].pc = "write"
    /\ Available(RegistryWriteLock)
    /\ conc' = [conc EXCEPT !.threads[t].pc = "insert",
                            !.threads[t].held = Append(@, RegistryWriteLock)]

\* workspace_for: entry(root).or_insert(analyzer).clone() is returned and
\* write_lock is dropped
RegistryInsert(t) ==
    LET th == conc.threads[t]
        registry == or_insert(conc.registry, th.root,
                              [id |-> th.built, dot_gn_version |-> th.version])
    IN /\ th.pc = "insert"
       /\ conc' = [conc EXCEPT !.registry = registry,
                               !.threads[t] =
                                  [@ EXCEPT !.pc = "return", !.got = registry[th.root].id,
                                            !.held = Dropped(@, RegistryWriteLock)]]

\* workspace_for has returned: its caller is done, or goes on to lock the analyzer
WorkspaceForReturn(t) ==
    /\ conc.threads[t].pc = "return"
    /\ conc' = [conc EXCEPT !.threads[t] =
                              IF conc.threads[t].op = "workspace_for"
                              THEN IdleThread
                              ELSE [IdleThread EXCEPT !.pc = "lock", !.op = "analyze",
                                                      !.root = conc.threads[t].root,
                                                      !.got = conc.threads[t].got],
                            !.returned[conc.threads[t].root] = @ \cup {conc.threads[t].got}]

\* analyze_file, analyze_at, collect_undefined_identifiers: .lock() of the analyzer
\* that workspace_for returned
AnalyzerLock(t) ==
    /\ conc.threads[t].pc = "lock"
    /\ Available(WorkspaceMutex(conc.threads[t].got))
    /\ conc' = [conc EXCEPT !.threads[t].pc = "locked",
                            !.threads[t].held = Append(@, WorkspaceMutex(conc.threads[t].got))]

\* WorkspaceAnalyzer: self.storage.lock() for the check of a key or the read of a
\* document, with the mutex of the analyzer held
AnalyzerStorageLock(t) ==
    /\ conc.threads[t].pc = "locked"
    /\ Available(StorageMutex)
    /\ conc' = [conc EXCEPT !.threads[t].pc = "reading",
                            !.threads[t].held = Append(@, StorageMutex)]

\* WorkspaceAnalyzer: the guard of the storage is dropped; the analysis goes on
\* and may lock the storage again for the next key or document
AnalyzerStorageUnlock(t) ==
    /\ conc.threads[t].pc = "reading"
    /\ conc' = [conc EXCEPT !.threads[t].pc = "locked",
                            !.threads[t].held = Dropped(@, StorageMutex)]

\* The operation returns and the guard of the analyzer is dropped
AnalyzerUnlock(t) ==
    /\ conc.threads[t].pc = "locked"
    /\ conc' = [conc EXCEPT !.threads[t] = IdleThread]

NextThreads ==
    /\ \E t \in Threads :
          \/ \E op \in AnalyzerOperations, root \in Roots : StartOperation(t, op, root)
          \/ \E op \in {"load_to_memory", "unload_from_memory"} :
                StartStorageOperation(t, op, Root)
          \/ StoreLock(t)
          \/ StoreUnlock(t)
          \/ VersionLock(t)
          \/ VersionUnlock(t)
          \/ RegistryRead(t)
          \/ EntryLock(t)
          \/ EntryCompare(t)
          \/ RegistryReadUnlock(t)
          \/ EvaluateLock(t)
          \/ EvaluateUnlock(t)
          \/ EvaluateFails(t)
          \/ RegistryWrite(t)
          \/ RegistryInsert(t)
          \/ WorkspaceForReturn(t)
          \/ AnalyzerLock(t)
          \/ AnalyzerStorageLock(t)
          \/ AnalyzerStorageUnlock(t)
          \/ AnalyzerUnlock(t)
    /\ UNCHANGED <<memory_docs, disk, workspaces, edits, seen, last, asm, indexed, idx, sig,
                   doc, buf, refs, act>>

SpecThreads == Init /\ [][NextThreads]_vars

----------------------------------------------------------------------------
(* Locks *)

\* The lock a thread is about to take
WaitsFor(t) ==
    CASE conc.threads[t].pc \in {"store", "version", "evaluate", "locked"} -> StorageMutex
      [] conc.threads[t].pc = "read" -> RegistryReadLock
      [] conc.threads[t].pc = "write" -> RegistryWriteLock
      [] conc.threads[t].pc = "entry" ->
           WorkspaceMutex(conc.registry[conc.threads[t].root].id)
      [] conc.threads[t].pc = "lock" -> WorkspaceMutex(conc.threads[t].got)
      [] OTHER -> [kind |-> "none", mode |-> "", id |-> 0]

Blocked(t) == WaitsFor(t).kind # "none" /\ ~Available(WaitsFor(t))

\* The threads whose locks keep t from taking the lock it waits for
Blockers(t) ==
    {u \in Threads :
        \E i \in 1..Len(conc.threads[u].held) :
           LET lock == conc.threads[u].held[i]
           IN IF WaitsFor(t).kind = "registry"
              THEN lock.kind = "registry"
                      /\ (lock.mode = "write" \/ WaitsFor(t).mode = "write")
              ELSE lock = WaitsFor(t)}

\* Registry lock, then a workspace mutex, then the storage mutex
Rank(lock) ==
    CASE lock.kind = "registry" -> 1
      [] lock.kind = "workspace" -> 2
      [] OTHER -> 3

\* C29: under any interleaving of workspace_for, analyze_file, analyze_at, the
\* undefined-identifier pass and load_to_memory / unload_from_memory, no thread
\* holds two workspace mutexes, every thread takes its locks in the order
\* registry lock, workspace mutex, storage mutex, and no set of threads waits
\* for locks that only its own members hold.
C29_NoDeadlock ==
    /\ \A t \in Threads :
          /\ Cardinality({i \in 1..Len(conc.threads[t].held) :
                            conc.threads[t].held[i].kind = "workspace"}) <= 1
          /\ \A i, j \in 1..Len(conc.threads[t].held) :
                i < j => Rank(conc.threads[t].held[i]) < Rank(conc.threads[t].held[j])
    /\ \A S \in SUBSET Threads :
          S # {} => \E t \in S : ~Blocked(t) \/ ~(Blockers(t) \subseteq S)

\* A thread waits for the mutex of one workspace under the registry lock while
\* another holds that mutex and waits for the storage, which a third holds
C29_Witness ==
    \E t, u, v \in Threads :
       /\ conc.threads[t].pc = "entry" /\ Blocked(t) /\ Holds(t, RegistryReadLock)
       /\ conc.threads[u].pc = "locked" /\ Blocked(u) /\ u \in Blockers(t)
       /\ conc.threads[v].pc = "stored" /\ v \in Blockers(u)

\* The threads that have built an analyzer for a root that another thread
\* registered first
Losers ==
    {t \in Threads :
        /\ conc.threads[t].built # 0
        /\ conc.threads[t].root \in DOMAIN conc.registry
        /\ conc.registry[conc.threads[t].root].id # conc.threads[t].built}

\* C30: concurrent calls of workspace_for for a root that is not registered all
\* return the same WorkspaceAnalyzer: every call that has returned for a root
\* returned the one entry the registry holds for it, and the analyzer built by
\* a thread that lost the race of the insertion is returned to no one.
C30_OneAnalyzerForARoot ==
    /\ \A root \in Roots :
          /\ Cardinality(conc.returned[root]) <= 1
          /\ conc.returned[root] # {}
                => /\ root \in DOMAIN conc.registry
                   /\ conc.returned[root] = {conc.registry[root].id}
    /\ \A t \in Threads :
          conc.threads[t].got # 0
             => /\ conc.threads[t].root \in DOMAIN conc.registry
                /\ conc.threads[t].got = conc.registry[conc.threads[t].root].id
    /\ \A t \in Losers, u \in Threads, root \in Roots :
          /\ conc.threads[t].built # conc.threads[u].got
          /\ conc.threads[t].built \notin conc.returned[root]

\* Two threads found the root not registered and each built an analyzer; the
\* first to insert has returned its own, and the other is about to return the
\* same one
C30_Witness ==
    \E t \in Losers, u \in Threads :
       /\ conc.threads[t].pc = "return"
       /\ conc.threads[u].pc \in {"lock", "locked"}
       /\ conc.threads[u].root = conc.threads[t].root
       /\ conc.threads[t].got = conc.threads[u].got
       /\ conc.returned[conc.threads[t].root] = {conc.threads[u].got}

====
